---- MODULE Spec2Model ----
(***************************************************************************)
(* A model of the CHIP-8 interpreter of src/src/chip-8: Memory, Timer,     *)
(* FramebufferDisplay, CPU and Emulator, and the host loop of               *)
(* src/src/bin/main.rs with its Input, MiniFBInput.                        *)
(*                                                                         *)
(* A Rust panic is modelled by the flag `panicked`: the mutations made     *)
(* before the panic stay, nothing after it happens, and no operation runs  *)
(* on a panicked emulator.                                                 *)
(***************************************************************************)
EXTENDS Integers, Sequences, FiniteSets, TLC

VARIABLES
    v,                \* CPU.v: the 16 general registers
    i,                \* CPU.i: the index register
    pc,               \* CPU.pc
    opcode,           \* CPU.opcode: the opcode fetched last
    stack,            \* CPU.stack
    sp,               \* CPU.sp
    memory,           \* CPU.memory (Memory.memory)
    framebuffer,      \* FramebufferDisplay.framebuffer
    dirty,            \* FramebufferDisplay.dirty
    delay_timer,      \* CPU.delay_timer (Timer.value)
    sound_timer,      \* CPU.sound_timer (Timer.value)
    current_rom,      \* Emulator.current_rom
    is_initial_state, \* Emulator.is_initial_state
    panicked,         \* a panic has unwound the last operation
    overflow_checks,  \* the build checks integer overflow (debug profile)
    key_query,        \* the keys passed to Input.is_key_down in the last cycle
    window,           \* the buffer the host handed to the window last
    cycles,           \* Emulator::cycle calls since new / reset
    call_sites,       \* history: the pc of each call that has not returned yet
    timer_calls,      \* history: for each timer, the value of its last set_value
                      \* and the ticks since (None before any set_value)
    last,             \* history: the last operation on the emulator, what it was
                      \* given, the CPU before it and the CPU one cycle earlier
    host              \* main's loop: the time since each of its three instants,
                      \* MiniFBInput, the keys held down in the window, and what
                      \* the last iteration did

vars == <<v, i, pc, opcode, stack, sp, memory, framebuffer, dirty, delay_timer,
          sound_timer, current_rom, is_initial_state, panicked, overflow_checks,
          key_query, window, cycles, call_sites, timer_calls, last, host>>

----------------------------------------------------------------------------
(* Program constants *)

MEMORY_SIZE == 4096
FONTSET_BASE_ADDRESS == 80
STACK_SIZE == 128
FRAME_BUFFER_PIXEL_WIDTH == 64
FRAME_BUFFER_PIXEL_HEIGHT == 32
ROM_BASE_ADDRESS == 512

FONTSET ==
    << \hF0, \h90, \h90, \h90, \hF0,
       \h20, \h60, \h20, \h20, \h70,
       \hF0, \h10, \hF0, \h80, \hF0,
       \hF0, \h10, \hF0, \h10, \hF0,
       \h90, \h90, \hF0, \h10, \h10,
       \hF0, \h80, \hF0, \h10, \hF0,
       \hF0, \h80, \hF0, \h90, \hF0,
       \hF0, \h10, \h20, \h40, \h40,
       \hF0, \h90, \hF0, \h90, \hF0,
       \hF0, \h90, \hF0, \h10, \hF0,
       \hF0, \h90, \hF0, \h90, \h90,
       \hE0, \h90, \hE0, \h90, \hE0,
       \hF0, \h80, \h80, \h80, \hF0,
       \hE0, \h90, \h90, \h90, \hE0,
       \hF0, \h80, \hF0, \h80, \hF0,
       \hF0, \h80, \hF0, \h80, \h80 >>

----------------------------------------------------------------------------
(* u8 / u16 arithmetic *)

U8 == 256
U16 == 65536

wrapping_add8(a, b) == (a + b) % U8
wrapping_sub8(a, b) == (a - b + U8) % U8
\* Mutant of wrapping_add16: the sum stops at 0xFFFF.
saturating_add16(a, b) == IF a + b >= U16 THEN U16 - 1 ELSE a + b

wrapping_add16(a, b) == (a + b) % U16

\* The bitwise operators of u8, bit by bit from the least significant one.
RECURSIVE BitOp(_, _, _, _)
BitOp(f, a, b, n) ==
    IF n = 0 THEN 0
    ELSE f[a % 2][b % 2] + 2 * BitOp(f, a \div 2, b \div 2, n - 1)

BitOr(a, b)  == BitOp([x \in 0..1 |-> [y \in 0..1 |-> IF x + y > 0 THEN 1 ELSE 0]], a, b, 8)
BitAnd(a, b) == BitOp([x \in 0..1 |-> [y \in 0..1 |-> x * y]], a, b, 8)
BitXor(a, b) == BitOp([x \in 0..1 |-> [y \in 0..1 |-> (x + y) % 2]], a, b, 8)

\* Option<u8>: None is the empty sequence, Some(k) is <<k>>.
None == << >>
Some(k) == << k >>

----------------------------------------------------------------------------
(* Memory (memory.rs) *)

\* Memory::new: zeroes with the font table at FONTSET_BASE_ADDRESS.
Memory_new ==
    [a \in FONTSET_BASE_ADDRESS..(FONTSET_BASE_ADDRESS + Len(FONTSET) - 1) |->
        FONTSET[a - FONTSET_BASE_ADDRESS + 1]]
    @@ [a \in 0..(MEMORY_SIZE - 1) |-> 0]

\* Mutant of font_address_for_character: glyphs taken to be four bytes apart.
font_address_by_four(character) == FONTSET_BASE_ADDRESS + character * 4

font_address_for_character(character) == FONTSET_BASE_ADDRESS + character * 5

\* The range base..base+length is inside the array (the slice index does not panic).
range_ok(base_address, length) == base_address + length <= MEMORY_SIZE

\* Memory::copy_from_slice, for a range that fits.
copy_from_slice(mem, base_address, slice) ==
    [a \in base_address..(base_address + Len(slice) - 1) |-> slice[a - base_address + 1]]
    @@ mem

\* Memory::as_slice, for a range that fits.
as_slice(mem, base_address, length) ==
    [k \in 1..length |-> mem[base_address + k - 1]]

\* Index<u16> / IndexMut<u16> for Memory: the assertion on the address.
address_ok(address) == address < MEMORY_SIZE

----------------------------------------------------------------------------
(* Timer (timer.rs) *)

Timer_new == 0
is_active(value) == value > 0

\* Mutant of tick: the value is decremented at zero too, and wraps.
tick_wrapping(value) == (value - 1 + 256) % 256

tick(value) == IF is_active(value) THEN value - 1 ELSE value

----------------------------------------------------------------------------
(* FramebufferDisplay (display.rs) *)

FRAME_BUFFER_LEN == FRAME_BUFFER_PIXEL_WIDTH * FRAME_BUFFER_PIXEL_HEIGHT

\* FramebufferDisplay::default: a zero framebuffer, dirty.
blank_framebuffer == [p \in 0..(FRAME_BUFFER_LEN - 1) |-> 0]

\* u8 addition of a coordinate and an offset: wraps, or panics when the build
\* checks overflow. The result is << sum, panics >>.
coord_add(a, b) ==
    IF a + b >= U8 /\ overflow_checks THEN << 0, TRUE >>
    ELSE << (a + b) % U8, FALSE >>

\* Mutant of sprite_pixel: (sprite << x_bit) & 0x80, not shifted down to bit 0.
sprite_pixel_unshifted(sprite, x_bit) == (((sprite * (2 ^ x_bit)) % U8) \div 128) * 128

\* ((sprite << x_bit) & 0x80) >> 7
sprite_pixel(sprite, x_bit) == (((sprite * (2 ^ x_bit)) % U8) \div 128) % 2

\* Mutant of draw_row: the sprite bit is OR-ed into the pixel.
RECURSIVE draw_row_or(_, _, _, _, _)
draw_row_or(d, x, y_norm, sprite, x_bit) ==
    IF x_bit = 8 THEN d
    ELSE
        LET xs == coord_add(x, x_bit)
        IN  IF xs[2] THEN [d EXCEPT !.panic = TRUE]
            ELSE
                LET x_norm == xs[1] % FRAME_BUFFER_PIXEL_WIDTH
                    pixel == sprite_pixel(sprite, x_bit)
                    buffer_index == y_norm * FRAME_BUFFER_PIXEL_WIDTH + x_norm
                    previous_display_value == d.fb[buffer_index]
                    next ==
                        [fb |-> [d.fb EXCEPT ![buffer_index] =
                                    BitOr(previous_display_value, pixel)],
                         collide |-> IF pixel > 0
                                     THEN d.collide \/ previous_display_value = 1
                                     ELSE d.collide,
                         panic |-> FALSE]
                IN  draw_row_or(next, x, y_norm, sprite, x_bit + 1)

\* The inner fold of draw_sprite: the bits x_bit..7 of one sprite row.
\* d is [fb, collide, panic].
RECURSIVE draw_row(_, _, _, _, _)
draw_row(d, x, y_norm, sprite, x_bit) ==
    IF x_bit = 8 THEN d
    ELSE
        LET xs == coord_add(x, x_bit)
        IN  IF xs[2] THEN [d EXCEPT !.panic = TRUE]
            ELSE
                LET x_norm == xs[1] % FRAME_BUFFER_PIXEL_WIDTH
                    pixel == sprite_pixel(sprite, x_bit)
                    buffer_index == y_norm * FRAME_BUFFER_PIXEL_WIDTH + x_norm
                    previous_display_value == d.fb[buffer_index]
                    next ==
                        [fb |-> [d.fb EXCEPT ![buffer_index] =
                                    BitXor(previous_display_value, pixel)],
                         collide |-> IF pixel > 0
                                     THEN d.collide \/ previous_display_value = 1
                                     ELSE d.collide,
                         panic |-> FALSE]
                IN  draw_row(next, x, y_norm, sprite, x_bit + 1)

\* Mutant of draw_rows: the collision reported is that of the last row alone.
RECURSIVE draw_rows_last_row(_, _, _, _, _)
draw_rows_last_row(d, x, y, sprites, y_offset) ==
    IF y_offset >= Len(sprites) THEN d
    ELSE
        LET ys == coord_add(y, y_offset % U8)
        IN  IF ys[2] THEN [d EXCEPT !.panic = TRUE]
            ELSE
                LET y_norm == ys[1] % FRAME_BUFFER_PIXEL_HEIGHT
                    inner == draw_row([d EXCEPT !.collide = FALSE], x, y_norm,
                                      sprites[y_offset + 1], 0)
                IN  IF inner.panic THEN inner
                    ELSE draw_rows_last_row(inner, x, y, sprites, y_offset + 1)

\* The outer fold of draw_sprite: the rows y_offset.. of the sprite.
RECURSIVE draw_rows(_, _, _, _, _)
draw_rows(d, x, y, sprites, y_offset) ==
    IF y_offset >= Len(sprites) THEN d
    ELSE
        LET ys == coord_add(y, y_offset % U8)
        IN  IF ys[2] THEN [d EXCEPT !.panic = TRUE]
            ELSE
                LET y_norm == ys[1] % FRAME_BUFFER_PIXEL_HEIGHT
                    inner == draw_row([d EXCEPT !.collide = FALSE], x, y_norm,
                                      sprites[y_offset + 1], 0)
                IN  IF inner.panic THEN inner
                    ELSE draw_rows([inner EXCEPT !.collide = d.collide \/ inner.collide],
                                   x, y, sprites, y_offset + 1)

\* FramebufferDisplay::draw_sprite: [fb, collide, panic]; dirty is set by the caller
\* of this operator before anything else, as the method does.
draw_sprite(fb, x, y, base_address, bytes_to_read, mem) ==
    IF ~range_ok(base_address, bytes_to_read)
    THEN [fb |-> fb, collide |-> FALSE, panic |-> TRUE]
    ELSE draw_rows([fb |-> fb, collide |-> FALSE, panic |-> FALSE], x, y,
                   as_slice(mem, base_address, bytes_to_read), 0)

\* FramebufferDisplay::rgba_framebuffer: one colour per cell.
rgba_framebuffer(fb) ==
    [p \in 0..(FRAME_BUFFER_LEN - 1) |-> IF fb[p] = 1 THEN \h00FFFFFF ELSE 0]

----------------------------------------------------------------------------
(* CPU (cpu.rs) *)

\* The CPU with its display, as one value.
CPUState ==
    [v |-> v, i |-> i, pc |-> pc, opcode |-> opcode, stack |-> stack, sp |-> sp,
     memory |-> memory, framebuffer |-> framebuffer, dirty |-> dirty,
     delay_timer |-> delay_timer, sound_timer |-> sound_timer,
     key_query |-> key_query]

\* Registers::default
Registers_default == [r \in 0..15 |-> 0]

\* [0; STACK_SIZE]
empty_stack == [k \in 0..(STACK_SIZE - 1) |-> 0]

\* CPU::new on a memory and a display (its framebuffer and dirty flag).
CPU_new(mem, fb, d) ==
    [v |-> Registers_default, i |-> 0, pc |-> ROM_BASE_ADDRESS, opcode |-> 0,
     stack |-> empty_stack, sp |-> 0,
     memory |-> mem, framebuffer |-> fb, dirty |-> d,
     delay_timer |-> Timer_new, sound_timer |-> Timer_new,
     key_query |-> << >>]

\* Mutant of cls: the first row of pixels is left as it is.
cls_keeps_first_row(s) ==
    [s EXCEPT !.framebuffer =
                [p \in 0..(FRAME_BUFFER_PIXEL_WIDTH - 1) |-> s.framebuffer[p]]
                @@ blank_framebuffer,
              !.dirty = TRUE]

\* Mutant of cls: the pixels are cleared and the flag is left as it is.
cls_leaves_flag(s) == [s EXCEPT !.framebuffer = blank_framebuffer]

\* FramebufferDisplay::cls
cls(s) == [s EXCEPT !.framebuffer = blank_framebuffer, !.dirty = TRUE]

\* Mutant of clear_dirty: the flag is left as it is.
clear_dirty_skipped(s) == s

\* FramebufferDisplay::clear_dirty
clear_dirty(s) == [s EXCEPT !.dirty = FALSE]

\* Mutant of CPU_reset: the new CPU keeps the registers of the old one.
CPU_reset_keeps_registers(s, mem) ==
    LET c == cls(s) IN [CPU_new(mem, c.framebuffer, c.dirty) EXCEPT !.v = s.v]

\* Mutant of CPU_reset: the CPU keeps the memory it had.
CPU_reset_keeps_memory(s, mem) ==
    LET c == cls(s) IN CPU_new(s.memory, c.framebuffer, c.dirty)

\* CPU::reset: clear the display, then a new CPU on the same display.
CPU_reset(s, mem) ==
    LET c == cls(s) IN CPU_new(mem, c.framebuffer, c.dirty)

\* What execute_opcode gives back: the state, the next pc, and whether it panicked.
Ret(s, next_pc) == [s |-> s, next_pc |-> next_pc, panic |-> FALSE]
Panic(s) == [s |-> s, next_pc |-> s.pc, panic |-> TRUE]

\* The fields of an opcode.
op_family(op) == op \div 4096          \* (opcode & 0xF000) >> 12
op_nnn(op) == op % 4096                \* opcode & 0x0FFF
op_x(op) == (op \div 256) % 16         \* (opcode & 0x0F00) >> 8
op_y(op) == (op \div 16) % 16          \* (opcode & 0x00F0) >> 4
op_n(op) == op % 16                    \* opcode & 0x000F
op_kk(op) == op % 256                  \* opcode & 0x00FF

\* Mutant of stack_push: a push on a full stack is dropped without a panic.
stack_push_drops_when_full(s, value) ==
    IF ~(s.sp < STACK_SIZE) THEN [s |-> s, panic |-> FALSE]
    ELSE [s |-> [s EXCEPT !.stack[s.sp] = value, !.sp = s.sp + 1], panic |-> FALSE]

\* CPU::stack_push
stack_push(s, value) ==
    IF ~(s.sp < STACK_SIZE) THEN [s |-> s, panic |-> TRUE]
    ELSE [s |-> [s EXCEPT !.stack[s.sp] = value, !.sp = s.sp + 1], panic |-> FALSE]

\* Mutant of stack_pop: the value popped is the oldest entry.
stack_pop_oldest(s) ==
    IF ~(s.sp /= 0) THEN [s |-> s, value |-> 0, panic |-> TRUE]
    ELSE [s |-> [s EXCEPT !.sp = s.sp - 1], value |-> s.stack[0], panic |-> FALSE]

\* CPU::stack_pop
stack_pop(s) ==
    IF ~(s.sp /= 0) THEN [s |-> s, value |-> 0, panic |-> TRUE]
    ELSE [s |-> [s EXCEPT !.sp = s.sp - 1], value |-> s.stack[s.sp - 1], panic |-> FALSE]

\* 0x0000 family: 00E0 and 00EE, decoded by the last nibble alone.
exec_0(s, op, current_pc) ==
    CASE op_n(op) = 0 -> Ret(cls(s), current_pc + 2)
      [] op_n(op) = 14 ->
            LET p == stack_pop(s)
            IN  IF p.panic THEN Panic(p.s) ELSE Ret(p.s, p.value)
      [] OTHER -> Panic(s)

\* 1NNN
exec_1(s, op, current_pc) == Ret(s, op_nnn(op))

\* The address a call goes to.
call_address(op) ==
    IF op_nnn(op) < 512 THEN op_nnn(op) + 512 ELSE op_nnn(op)

\* 2NNN
exec_2(s, op, current_pc) ==
    LET p == stack_push(s, current_pc + 2)
    IN  IF p.panic THEN Panic(p.s) ELSE Ret(p.s, call_address(op))

\* Mutant of skip_if: the next instruction is never skipped.
skip_if_never(cond, current_pc) == current_pc + 2

\* The next pc of a conditional skip.
skip_if(cond, current_pc) == IF cond THEN current_pc + 4 ELSE current_pc + 2

\* 3XKK
exec_3(s, op, current_pc) == Ret(s, skip_if(s.v[op_x(op)] = op_kk(op), current_pc))

\* 4XKK
exec_4(s, op, current_pc) == Ret(s, skip_if(s.v[op_x(op)] /= op_kk(op), current_pc))

\* 5XY0, decoded by the first nibble alone.
exec_5(s, op, current_pc) == Ret(s, skip_if(s.v[op_x(op)] = s.v[op_y(op)], current_pc))

\* Mutant of exec_6: the value goes to the register the Y field names.
exec_6_wrong_register(s, op, current_pc) ==
    Ret([s EXCEPT !.v[op_y(op)] = op_kk(op)], current_pc + 2)

\* 6XNN
exec_6(s, op, current_pc) ==
    Ret([s EXCEPT !.v[op_x(op)] = op_kk(op)], current_pc + 2)

\* 7XNN
exec_7(s, op, current_pc) ==
    Ret([s EXCEPT !.v[op_x(op)] = wrapping_add8(s.v[op_x(op)], op_kk(op))], current_pc + 2)

\* Mutant of alu_add: no carry is reported for a sum of exactly 256.
alu_add_carry_above(rv, x, y) ==
    LET v1 == [rv EXCEPT ![15] = IF rv[x] + rv[y] > U8 THEN 1 ELSE 0]
    IN  [v1 EXCEPT ![x] = wrapping_add8(v1[x], v1[y])]

\* 8XY4: VF first, then VX from the registers as they are then.
alu_add(rv, x, y) ==
    LET v1 == [rv EXCEPT ![15] = IF rv[x] + rv[y] >= U8 THEN 1 ELSE 0]
    IN  [v1 EXCEPT ![x] = wrapping_add8(v1[x], v1[y])]

\* Mutant of alu_sub: the flag is set for equal operands too.
alu_sub_flag_on_equal(rv, x, y) ==
    LET v1 == [rv EXCEPT ![15] = IF rv[x] >= rv[y] THEN 1 ELSE 0]
    IN  [v1 EXCEPT ![x] = wrapping_sub8(v1[x], v1[y])]

\* 8XY5
alu_sub(rv, x, y) ==
    LET v1 == [rv EXCEPT ![15] = IF rv[x] > rv[y] THEN 1 ELSE 0]
    IN  [v1 EXCEPT ![x] = wrapping_sub8(v1[x], v1[y])]

\* 8XY6
alu_shr(rv, x) ==
    LET v1 == [rv EXCEPT ![15] = rv[x] % 2]
    IN  [v1 EXCEPT ![x] = v1[x] \div 2]

\* 8XY7
alu_subn(rv, x, y) ==
    LET v1 == [rv EXCEPT ![15] = IF rv[y] > rv[x] THEN 1 ELSE 0]
    IN  [v1 EXCEPT ![x] = wrapping_sub8(v1[y], v1[x])]

\* Mutant of alu_shl: VF gets the top bit where it stands, 0x80 or 0.
alu_shl_flag_unshifted(rv, x) ==
    LET v1 == [rv EXCEPT ![15] = (rv[x] \div 128) * 128]
    IN  [v1 EXCEPT ![x] = (v1[x] * 2) % U8]

\* 8XYE
alu_shl(rv, x) ==
    LET v1 == [rv EXCEPT ![15] = (rv[x] \div 128) % 2]
    IN  [v1 EXCEPT ![x] = (v1[x] * 2) % U8]

\* Mutant of exec_8: 8XY1, 8XY2 and 8XY3 also reset VF.
exec_8_logic_resets_flag(s, op, current_pc) ==
    LET x == op_x(op)
        y == op_y(op)
        n == op_n(op)
    IN  CASE n = 0 -> Ret([s EXCEPT !.v[x] = s.v[y]], current_pc + 2)
          [] n = 1 -> Ret([s EXCEPT !.v[x] = BitOr(s.v[x], s.v[y]), !.v[15] = 0], current_pc + 2)
          [] n = 2 -> Ret([s EXCEPT !.v[x] = BitAnd(s.v[x], s.v[y]), !.v[15] = 0], current_pc + 2)
          [] n = 3 -> Ret([s EXCEPT !.v[x] = BitXor(s.v[x], s.v[y]), !.v[15] = 0], current_pc + 2)
          [] n = 4 -> Ret([s EXCEPT !.v = alu_add(s.v, x, y)], current_pc + 2)
          [] n = 5 -> Ret([s EXCEPT !.v = alu_sub(s.v, x, y)], current_pc + 2)
          [] n = 6 -> Ret([s EXCEPT !.v = alu_shr(s.v, x)], current_pc + 2)
          [] n = 7 -> Ret([s EXCEPT !.v = alu_subn(s.v, x, y)], current_pc + 2)
          [] n = 14 -> Ret([s EXCEPT !.v = alu_shl(s.v, x)], current_pc + 2)
          [] OTHER -> Panic(s)

\* 0x8000 family
exec_8(s, op, current_pc) ==
    LET x == op_x(op)
        y == op_y(op)
        n == op_n(op)
    IN  CASE n = 0 -> Ret([s EXCEPT !.v[x] = s.v[y]], current_pc + 2)
          [] n = 1 -> Ret([s EXCEPT !.v[x] = BitOr(s.v[x], s.v[y])], current_pc + 2)
          [] n = 2 -> Ret([s EXCEPT !.v[x] = BitAnd(s.v[x], s.v[y])], current_pc + 2)
          [] n = 3 -> Ret([s EXCEPT !.v[x] = BitXor(s.v[x], s.v[y])], current_pc + 2)
          [] n = 4 -> Ret([s EXCEPT !.v = alu_add(s.v, x, y)], current_pc + 2)
          [] n = 5 -> Ret([s EXCEPT !.v = alu_sub(s.v, x, y)], current_pc + 2)
          [] n = 6 -> Ret([s EXCEPT !.v = alu_shr(s.v, x)], current_pc + 2)
          [] n = 7 -> Ret([s EXCEPT !.v = alu_subn(s.v, x, y)], current_pc + 2)
          [] n = 14 -> Ret([s EXCEPT !.v = alu_shl(s.v, x)], current_pc + 2)
          [] OTHER -> Panic(s)

\* 9XY0, decoded by the first nibble alone.
exec_9(s, op, current_pc) == Ret(s, skip_if(s.v[op_x(op)] /= s.v[op_y(op)], current_pc))

\* ANNN
exec_A(s, op, current_pc) == Ret([s EXCEPT !.i = op_nnn(op)], current_pc + 2)

\* Mutant of exec_B: the sum is reduced to 12 bits.
exec_B_masked(s, op, current_pc) == Ret(s, (op_nnn(op) + s.v[0]) % \h1000)

\* BNNN
exec_B(s, op, current_pc) == Ret(s, op_nnn(op) + s.v[0])

\* CXNN
exec_C(s, op, current_pc, random) ==
    Ret([s EXCEPT !.v[op_x(op)] = BitAnd(op_kk(op), random)], current_pc + 2)

\* DXYN
exec_D(s, op, current_pc) ==
    LET x == s.v[op_x(op)]
        y == s.v[op_y(op)]
        n == op_n(op)
        d == draw_sprite(s.framebuffer, x, y, s.i, n, s.memory)
        s1 == [s EXCEPT !.dirty = TRUE, !.framebuffer = d.fb]
    IN  IF d.panic THEN Panic(s1)
        ELSE Ret([s1 EXCEPT !.v[15] = IF d.collide THEN 1 ELSE 0], current_pc + 2)

\* 0xE000 family: the key asked for is the register's value as it is.
exec_E(s, op, current_pc, input) ==
    LET register_value == s.v[op_x(op)]
        asked == [s EXCEPT !.key_query = << register_value >>]
    IN  CASE op_kk(op) = 158 -> Ret(asked, skip_if(input.is_key_down, current_pc))
          [] op_kk(op) = 161 -> Ret(asked, skip_if(~input.is_key_down, current_pc))
          [] OTHER -> Panic(s)

\* Mutant of store_bcd: the tens digit is value / 10, not reduced mod 10.
store_bcd_tens_unreduced(s, value) ==
    IF ~address_ok(s.i) THEN Panic(s)
    ELSE
        LET s1 == [s EXCEPT !.memory[s.i] = value \div 100]
        IN  IF ~address_ok(s.i + 1) THEN Panic(s1)
            ELSE
                LET s2 == [s1 EXCEPT !.memory[s.i + 1] = value \div 10]
                IN  IF ~address_ok(s.i + 2) THEN Panic(s2)
                    ELSE Ret([s2 EXCEPT !.memory[s.i + 2] = (value % 100) % 10], s.pc)

\* FX33: three indexed writes, each with its own assertion.
store_bcd(s, value) ==
    IF ~address_ok(s.i) THEN Panic(s)
    ELSE
        LET s1 == [s EXCEPT !.memory[s.i] = value \div 100]
        IN  IF ~address_ok(s.i + 1) THEN Panic(s1)
            ELSE
                LET s2 == [s1 EXCEPT !.memory[s.i + 1] = (value \div 10) % 10]
                IN  IF ~address_ok(s.i + 2) THEN Panic(s2)
                    ELSE Ret([s2 EXCEPT !.memory[s.i + 2] = (value % 100) % 10], s.pc)

\* Registers::as_slice_through
as_slice_through(rv, idx) == [k \in 1..(idx + 1) |-> rv[k - 1]]

\* Mutant of store_registers: the bytes that fit are written before the panic.
store_registers_partial(s, register) ==
    IF ~range_ok(s.i, register + 1)
    THEN Panic([s EXCEPT !.memory =
                    [a \in s.i..(MEMORY_SIZE - 1) |-> s.v[a - s.i]] @@ s.memory])
    ELSE Ret([s EXCEPT !.memory =
                  copy_from_slice(s.memory, s.i, as_slice_through(s.v, register))], s.pc)

\* FX55: Memory::copy_from_slice of V0..VX at I; the slice index panics before
\* any byte is copied.
store_registers(s, register) ==
    IF ~range_ok(s.i, register + 1) THEN Panic(s)
    ELSE Ret([s EXCEPT !.memory =
                  copy_from_slice(s.memory, s.i, as_slice_through(s.v, register))], s.pc)

\* Mutant of clone_from_slice: the last byte of the slice is not copied.
clone_from_slice_short(rv, slice) ==
    [r \in 0..15 |-> IF r < Len(slice) - 1 THEN slice[r + 1] ELSE rv[r]]

\* Registers::clone_from_slice
clone_from_slice(rv, slice) ==
    [r \in 0..15 |-> IF r < Len(slice) THEN slice[r + 1] ELSE rv[r]]

\* 0xF000 family: the state and whether the instruction blocked.
exec_F_body(s, op, input) ==
    LET register == op_x(op)
        kk == op_kk(op)
        done(t) == [s |-> t, blocked |-> FALSE, panic |-> FALSE]
        fail(t) == [s |-> t, blocked |-> FALSE, panic |-> TRUE]
    IN  CASE kk = 7 -> done([s EXCEPT !.v[register] = s.delay_timer])
          [] kk = 10 ->
                IF input.last_key_down /= None
                THEN done([s EXCEPT !.v[register] = input.last_key_down[1]])
                ELSE [s |-> s, blocked |-> TRUE, panic |-> FALSE]
          [] kk = 21 -> done([s EXCEPT !.delay_timer = s.v[register]])
          [] kk = 24 -> done([s EXCEPT !.sound_timer = s.v[register]])
          [] kk = 30 -> done([s EXCEPT !.i = wrapping_add16(s.i, s.v[register])])
          [] kk = 41 -> done([s EXCEPT !.i = font_address_for_character(s.v[register])])
          [] kk = 51 ->
                LET b == store_bcd(s, s.v[register])
                IN  IF b.panic THEN fail(b.s) ELSE done(b.s)
          [] kk = 85 ->
                LET b == store_registers(s, register)
                IN  IF b.panic THEN fail(b.s) ELSE done(b.s)
          [] kk = 101 ->
                IF ~range_ok(s.i, register + 1) THEN fail(s)
                ELSE done([s EXCEPT !.v =
                              clone_from_slice(s.v, as_slice(s.memory, s.i, register + 1))])
          [] OTHER -> fail(s)

\* Mutant of exec_F: an instruction that blocks clears the register it waits for.
exec_F_blocked_clears_register(s, op, current_pc, input) ==
    LET r == exec_F_body(s, op, input)
    IN  IF r.panic THEN Panic(r.s)
        ELSE IF r.blocked THEN Ret([r.s EXCEPT !.v[op_x(op)] = 0], current_pc)
        ELSE Ret(r.s, current_pc + 2)

\* Mutant of exec_F: the pc advances whether the instruction blocked or not.
exec_F_always_advances(s, op, current_pc, input) ==
    LET r == exec_F_body(s, op, input)
    IN  IF r.panic THEN Panic(r.s) ELSE Ret(r.s, current_pc + 2)

exec_F(s, op, current_pc, input) ==
    LET r == exec_F_body(s, op, input)
    IN  IF r.panic THEN Panic(r.s)
        ELSE Ret(r.s, IF ~r.blocked THEN current_pc + 2 ELSE current_pc)

\* Mutant of tick_both: the sound timer is not ticked.
tick_both_delay_only(s, tick_timers) ==
    IF tick_timers THEN [s EXCEPT !.delay_timer = tick(s.delay_timer)] ELSE s

\* The timers' tick at the end of execute_opcode.
tick_both(s, tick_timers) ==
    IF tick_timers
    THEN [s EXCEPT !.delay_timer = tick(s.delay_timer), !.sound_timer = tick(s.sound_timer)]
    ELSE s

\* CPU::execute_opcode. input is [is_key_down, last_key_down]: what the Input
\* answers in this cycle; random is what the random number provider returns.
execute_opcode(s0, op, current_pc, tick_timers, input, random) ==
    LET s == clear_dirty(s0)
        f == op_family(op)
        r == CASE f = 0 -> exec_0(s, op, current_pc)
               [] f = 1 -> exec_1(s, op, current_pc)
               [] f = 2 -> exec_2(s, op, current_pc)
               [] f = 3 -> exec_3(s, op, current_pc)
               [] f = 4 -> exec_4(s, op, current_pc)
               [] f = 5 -> exec_5(s, op, current_pc)
               [] f = 6 -> exec_6(s, op, current_pc)
               [] f = 7 -> exec_7(s, op, current_pc)
               [] f = 8 -> exec_8(s, op, current_pc)
               [] f = 9 -> exec_9(s, op, current_pc)
               [] f = 10 -> exec_A(s, op, current_pc)
               [] f = 11 -> exec_B(s, op, current_pc)
               [] f = 12 -> exec_C(s, op, current_pc, random)
               [] f = 13 -> exec_D(s, op, current_pc)
               [] f = 14 -> exec_E(s, op, current_pc, input)
               [] OTHER -> exec_F(s, op, current_pc, input)
    IN  IF r.panic THEN r
        ELSE Ret(tick_both(r.s, tick_timers), r.next_pc)

\* The fetch of CPU::cycle: memory[pc] and memory[pc.wrapping_add(1)], each asserted.
fetch_ok(s) == address_ok(s.pc) /\ address_ok(wrapping_add16(s.pc, 1))
fetch(s) == s.memory[s.pc] * 256 + s.memory[wrapping_add16(s.pc, 1)]

\* Mutant of CPU_cycle: the dirty flag is cleared before the fetch.
CPU_cycle_clears_dirty_first(s, tick_timers, input, random) ==
    IF ~fetch_ok(s) THEN [s |-> clear_dirty(s), panic |-> TRUE]
    ELSE
        LET s1 == [s EXCEPT !.opcode = fetch(s), !.key_query = << >>]
            r == execute_opcode(s1, s1.opcode, s1.pc, tick_timers, input, random)
        IN  IF r.panic THEN [s |-> r.s, panic |-> TRUE]
            ELSE [s |-> [r.s EXCEPT !.pc = r.next_pc], panic |-> FALSE]

\* CPU::cycle: [s, panic].
CPU_cycle(s, tick_timers, input, random) ==
    IF ~fetch_ok(s) THEN [s |-> s, panic |-> TRUE]
    ELSE
        LET s1 == [s EXCEPT !.opcode = fetch(s), !.key_query = << >>]
            r == execute_opcode(s1, s1.opcode, s1.pc, tick_timers, input, random)
        IN  IF r.panic THEN [s |-> r.s, panic |-> TRUE]
            ELSE [s |-> [r.s EXCEPT !.pc = r.next_pc], panic |-> FALSE]

----------------------------------------------------------------------------
(* Emulator (emulator.rs) *)

\* Mutant of Emulator_new: the ROM is copied to the start of the font table.
Emulator_new_rom_at_font(rom) ==
    [s |-> CPU_new(copy_from_slice(Memory_new, FONTSET_BASE_ADDRESS, rom),
                   blank_framebuffer, TRUE),
     panic |-> FALSE]

\* Emulator::new: [s, panic]; the copy of the ROM panics when it does not fit.
Emulator_new(rom) ==
    IF ~range_ok(ROM_BASE_ADDRESS, Len(rom))
    THEN [s |-> CPU_new(Memory_new, blank_framebuffer, TRUE), panic |-> TRUE]
    ELSE [s |-> CPU_new(copy_from_slice(Memory_new, ROM_BASE_ADDRESS, rom),
                        blank_framebuffer, TRUE),
          panic |-> FALSE]

\* Emulator::reset on a ROM that was loaded before (it fits).
Emulator_reset(s, rom) ==
    CPU_reset(s, copy_from_slice(Memory_new, ROM_BASE_ADDRESS, rom))

\* Mutant of mark_cycled: the flag is left as it is.
mark_cycled_skipped(flag) == flag

\* Emulator::cycle on is_initial_state, before the CPU's cycle.
mark_cycled(flag) == IF flag THEN FALSE ELSE flag

\* The colours main gives the window for the framebuffer.
host_buffer(fb) ==
    LET rgba == rgba_framebuffer(fb)
    IN  [p \in 0..(FRAME_BUFFER_LEN - 1) |-> IF rgba[p] = 0 THEN \h002C5066 ELSE \h0068BBED]

\* The intervals of main, in microseconds.
MICROS_BETWEEN_CYCLES == 1000000 \div 1000
MICROS_BETWEEN_TIMER_TICKS == 1000000 \div 60
MICROS_BETWEEN_DISPLAY_REFRESH == 1000000 \div 60

\* MiniFBInput::new
MiniFBInput_new == [key_states |-> [k \in 0..15 |-> FALSE], last_down |-> None]

\* MiniFBInput::update_key_state with the CHIP-8 keys whose mapped keys are
\* down in the window: the loop is over 0..0xF, which leaves key 0xF out;
\* last_down is the first mapped key the window lists.
update_key_state(input, keys_down) ==
    { [key_states |-> [k \in 0..15 |-> IF k < 15 THEN k \in keys_down
                                        ELSE input.key_states[k]],
       last_down |-> first] :
        first \in IF keys_down = {} THEN {None} ELSE { Some(k) : k \in keys_down } }

\* The state of main before its loop: the three instants just taken, no key
\* down; the last two fields are what the last iteration did.
main_start ==
    [since_last_instant |-> 0, since_last_timer_tick |-> 0, since_last_redraw |-> 0,
     input |-> MiniFBInput_new, keys_down |-> {},
     should_tick_timer |-> FALSE, cycled |-> FALSE]

\* Instant::elapsed after d more microseconds, kept up to the interval it is
\* compared with.
elapsed(since, d, interval) == IF since + d >= interval THEN interval ELSE since + d

----------------------------------------------------------------------------
(* Inputs *)

\* A ROM file: the big-endian bytes of a sequence of 16-bit words.
Prog(words) ==
    [k \in 1..(2 * Len(words)) |->
        IF k % 2 = 1 THEN words[(k + 1) \div 2] \div 256 ELSE words[k \div 2] % 256]

\* Cycles the model follows one ROM for, since new / reset.
MaxCycles == 6
\* Cycles the model follows a ROM of nested calls for.
MaxStackCycles == 262
\* Nested calls of the small call chains.
MaxNest == 3
\* Cycles the model follows the ROM that adds to I until it passes 0xFFFF.
MaxIndexCycles == 246

\* Wait for a key into VX, then loop.
KeyRoms == { Prog(<< \hF00A + 256 * x, \h1202 >>) : x \in {0, 3, 15} }

\* Words that are no encoding of a listed instruction, and a few that are.
SampleWords ==
    { \h0000, \h00F0, \h0123, \h00EF, \h01EE, \h5011, \h9AB5, \h8008, \h8FFF,
      \hE09F, \hE000, \hF000, \hF0FF, \h00E0, \h00EE, \h5010, \h9AB0 }

\* One sample word, run on a fresh interpreter and run inside a subroutine.
WordRoms ==
    { Prog(<< w, \h1202 >>) : w \in SampleWords }
    \cup { Prog(<< \h6101, \h2206, \h1204, w >>) : w \in SampleWords }

\* The addresses the sample calls go to.
CallTargets == { \h000, \h050, \h1FE, \h1FF, \h200, \h202, \h3FF, \hFFE, \hFFF }

\* A call as the first instruction, and a call from inside a subroutine.
CallRoms ==
    { Prog(<< \h2000 + nnn >>) : nnn \in CallTargets }
    \cup { Prog(<< \h2202, \h2000 + nnn >>) : nnn \in CallTargets }

\* Programs that write memory (FX33, FX55, also over their own code) and draw.
MemRoms ==
    { Prog(<< \h60FE, \hA300, \hF033, \hD113, \hF155, \h1200 >>),
      Prog(<< \h6012, \h6134, \hA200, \hF155, \hD005, \h00E0 >>),
      Prog(<< \hA050, \hD005, \h6A07, \hA2F0, \h00E0, \h6B01 >>),
      Prog(<< \h00E0, \h6A07, \hA2F0, \hC1FF, \hE19E, \hE1A1 >>) }

\* Start both timers, draw a glyph, clear the screen.
ClsRoms == { Prog(<< \h6003, \hF015, \hF018, \hA050, \hD005, \h00E0 >>) }

Roms == KeyRoms \cup WordRoms \cup CallRoms \cup MemRoms \cup ClsRoms

\* k nested calls, each from its own call site, then k returns, then a jump to
\* itself: word 0 calls word 2; words 2j, 2j+1 are "call word 2j+2; return"; the
\* last word is a return.
ChainRom(k) ==
    Prog(<< \h2000 + ROM_BASE_ADDRESS + 4, \h1000 + ROM_BASE_ADDRESS + 2 >> \o
         [w \in 1..(2 * (k - 1) + 1) |->
            IF w = 2 * (k - 1) + 1 THEN \h00EE
            ELSE IF w % 2 = 1 THEN \h2000 + ROM_BASE_ADDRESS + 4 + 2 * (w + 1)
            ELSE \h00EE])

\* A call of its own address: nests until the stack is full.
RecursionRom == Prog(<< \h2200 >>)

StackRoms ==
    { ChainRom(k) : k \in 1..MaxNest }
    \cup { ChainRom(STACK_SIZE), RecursionRom, Prog(<< \h00EE >>) }

\* Sprites: a font glyph, no rows, four rows of the program's own bytes.
SampleSprites == { << \h050, 5 >>, << \h050, 0 >>, << \h200, 4 >>, << \h09B, 5 >> }

\* Set V0 and V1, point I at a sprite, draw it at (V0, V1) twice.
DrawTwiceRoms ==
    { Prog(<< \h6000 + x, \h6100 + y, \hA000 + sp_[1], \hD010 + sp_[2], \hD010 + sp_[2] >>) :
        x \in {0, 60, 250}, y \in {0, 30}, sp_ \in SampleSprites }

\* Draw glyph 0 at (0, 0), then another sprite at (V0, 0) or at (0, V1).
OverlapRoms ==
    { Prog(<< \hA050, \hD015, \h6000 + d, \hA000 + a, \hD015, \hD105 >>) :
        d \in {0, 2, 4, 8}, a \in {\h050, \h055, \h09B} }

DrawRoms == DrawTwiceRoms \cup OverlapRoms

\* Set VX, then 3XKK or 4XKK on it.
SkipImmediateRoms ==
    { Prog(<< \h6000 + 256 * x + a, f * 4096 + 256 * x + kk >>) :
        f \in {3, 4}, x \in {0, 15}, a \in {0, 7, 255}, kk \in {7, 255} }

\* Set VX and VY (X = Y included), then 5XY0 or 9XY0 on them.
SkipRegisterRoms ==
    { Prog(<< \h6000 + 256 * xy[1] + ab[1], \h6000 + 256 * xy[2] + ab[2],
              f * 4096 + 256 * xy[1] + 16 * xy[2] >>) :
        f \in {5, 9}, xy \in {<<0, 1>>, <<15, 3>>, <<2, 2>>},
        ab \in {<<0, 0>>, <<7, 7>>, <<7, 8>>, <<255, 0>>} }

\* Set VX (to a key, and to a byte that is no key), then EX9E or EXA1 on it.
SkipKeyRoms ==
    { Prog(<< \h6000 + 256 * x + a, \hE000 + 256 * x + kk >>) :
        x \in {0, 15}, a \in {0, 15, 200}, kk \in {\h9E, \hA1} }

SkipRoms == SkipImmediateRoms \cup SkipRegisterRoms \cup SkipKeyRoms

\* Set VF to 1 and VX to a, then 7XNN on VX.
AddImmediateRoms ==
    { Prog(<< \h6F01, \h6000 + 256 * x + a, \h7000 + 256 * x + nn >>) :
        x \in {0, 7, 15}, a \in {0, 200, 255}, nn \in {0, 1, 100} }

\* Set VF to 1, VX to a and VY to b (X = Y included), then 8XY4, 8XY5 or 8XY7.
AddSubRoms ==
    { Prog(<< \h6F01, \h6000 + 256 * xy[1] + ab[1], \h6000 + 256 * xy[2] + ab[2],
              \h8000 + 256 * xy[1] + 16 * xy[2] + n >>) :
        n \in {4, 5, 7}, xy \in {<<0, 1>>, <<3, 3>>, <<14, 2>>},
        ab \in {<<0, 0>>, <<5, 5>>, <<200, 100>>, <<100, 200>>, <<255, 1>>, <<1, 255>>} }

\* 6XNN as the first instruction, for every register.
LoadRoms == { Prog(<< \h6000 + 256 * x + nn >>) : x \in 0..15, nn \in {\h07, \hFF} }

AluRoms == AddImmediateRoms \cup AddSubRoms \cup LoadRoms

\* Set V0, start both timers from it, read the delay timer, then loop; start the
\* delay timer a second time; wait for a key while it runs; stop on an unknown
\* opcode while it runs.
TimerRoms ==
    { Prog(<< \h6000 + a, \hF015, \hF018, \hF107, \h1208 >>) : a \in {0, 1, 2, 3, 255} }
    \cup { Prog(<< \h6003, \hF015, \h6101, \hF115, \hF107, \hF118 >>),
            Prog(<< \h6005, \hF015, \h1206, \hF10A >>),
            Prog(<< \h6002, \hF015, \hF0FF >>) }

\* Set V3 to a digit (or to a byte that is no digit), point I at its glyph, draw.
FontRoms ==
    { Prog(<< \h6300 + d, \hF329, \hD005 >>) : d \in (0..15) \cup {16, 51, 255} }

\* A ROM of n bytes: a jump to 0x200, zeroes, and 0xAB as the last byte.
LongRom(n) == [k \in 1..n |-> IF k = 1 THEN \h12 ELSE IF k = n THEN \hAB ELSE 0]

\* The longest ROM that fits at 0x200, and one byte more.
LongRoms == { LongRom(MEMORY_SIZE - ROM_BASE_ADDRESS), LongRom(MEMORY_SIZE - ROM_BASE_ADDRESS + 1) }

\* FX55 inside memory, up to its last byte, one byte over it, and with I above it.
DumpRoms ==
    { Prog(<< \h6011, \h6122, \hA000 + nnn, \hF155 >>) : nnn \in {\h300, \hFFE, \hFFF} }
    \cup { Prog(<< \h6011, \hAFFF, \hF055 >>),
            Prog(<< \h60FF, \hAFFF, \hF01E, \hF055 >> ) }

\* FX55, a change of the registers, FX65 with the same X and I; FX65 alone, on
\* the font table and over the end of memory.
DumpLoadRoms ==
    { Prog(<< \h6011, \h6122, \hA300, \hF155, \h6099, \hF165 >>),
      Prog(<< \h6011, \h6F22, \hA300, \hFF55, \h6F99, \hFF65 >>),
      Prog(<< \h6011, \hA300, \hF055, \h6099, \hF065 >>),
      Prog(<< \h6011, \h6122, \h6233, \hA050, \hF165 >>),
      Prog(<< \h6011, \hAFFF, \hF165 >>) }

MemWriteRoms == LongRoms \cup DumpRoms \cup DumpLoadRoms

\* FX33 on every byte; at the last three bytes of memory; over the end of it.
\* The program ends on a word the decoder does not know.
BcdRoms ==
    { Prog(<< \h6500 + b, \hA300, \hF533, \h0001 >>) : b \in 0..255 }
    \cup { Prog(<< \h6500 + b, \hA000 + nnn, \hF533, \h0001 >>) :
              b \in {0, 255}, nnn \in {\hFFD, \hFFE, \hFFF} }

\* Set VX to a and VY to b (X = Y included), then 8XY6 or 8XYE.
ShiftRoms ==
    { Prog(<< \h6000 + 256 * xy[1] + a, \h6000 + 256 * xy[2] + b,
              \h8000 + 256 * xy[1] + 16 * xy[2] + n >>) :
        n \in {6, 14}, xy \in {<<0, 1>>, <<14, 3>>, <<2, 2>>},
        a \in {\h00, \h01, \h7E, \h80, \h81, \hFF}, b \in {\h55, \hAA} }

\* Set VX to a and VF to b, then 8XF4, 8XF5 or 8XF7.
FlagOperandRoms ==
    { Prog(<< \h6000 + 256 * x + ab[1], \h6F00 + ab[2], \h80F0 + 256 * x + n >>) :
        n \in {4, 5, 7}, x \in {0, 14},
        ab \in {<<5, 7>>, <<7, 5>>, <<200, 100>>, <<255, 1>>, <<1, 1>>, <<0, 0>>} }

ShiftFlagRoms == ShiftRoms \cup FlagOperandRoms

\* Wait for a key into V0 with both timers running, with one timer running on
\* a drawn display, and right after a draw. The program ends on a word the
\* decoder does not know.
WaitRoms ==
    { Prog(<< \h6002, \hF015, \hF018, \hF00A, \h0001 >>),
      Prog(<< \hA050, \hD005, \h6001, \hF018, \hF00A, \h0001 >>),
      Prog(<< \hA050, \hD005, \hF00A, \h0001 >>) }

\* Programs that take pc to the end of memory and past it: BNNN with V0 added,
\* a jump to the last byte, a jump to the last word (zeroes: the program falls
\* off the end), a skip stored in the last word.
PcRoms ==
    { Prog(<< \h60FF, \hBFFF >>),
      Prog(<< \h6001, \hBFFE >>),
      Prog(<< \h6000, \hB000 >>),
      Prog(<< \h1FFF >>),
      Prog(<< \h1FFE >>),
      Prog(<< \h1FFC >>),
      Prog(<< \h6040, \hAFFE, \hF055, \h1FFE >>) }

\* Instructions whose range through I passes the end of memory: FX33 at the
\* last two bytes and with I above memory, FX55 and FX65 at the last byte with
\* two registers, DXYN with five rows at the last two bytes; and the same
\* instructions on the last range that fits.
FaultRoms ==
    { Prog(<< \h6500 + b, \hA000 + nnn, \hF533 >>) :
          b \in {123, 255}, nnn \in {\hFFD, \hFFE, \hFFF} }
    \cup { Prog(<< \h65FF, \h60FF, \hAFFF, \hF01E, \hF533 >>),
            Prog(<< \h6011, \h6122, \hAFFF, \hF155 >>),
            Prog(<< \h6011, \h6122, \hAFFE, \hF155 >>),
            Prog(<< \h6011, \h6122, \hAFFF, \hF165 >>),
            Prog(<< \h6011, \h6122, \hAFFE, \hF165 >>),
            Prog(<< \h6003, \h6104, \hAFFE, \hD015 >>),
            Prog(<< \h6003, \h6104, \hAFFB, \hD015 >>) }

\* The addresses jumped to: the ends of memory, the font table, the program,
\* single bits and mixed bit patterns, 0xFED of the repository's test.
JumpTargets ==
    { \h000, \h001, \h050, \h1FF, \h200, \h206, \h2F0, \h555, \h7FF,
      \h800, \hAAA, \hFED, \hFFE, \hFFF }

\* A call (so that the stack holds a return address), registers set, then
\* 1NNN; V0 set, then BNNN; and a 1NNN that lands on a BNNN.
JumpRoms ==
    { Prog(<< \h2204, \h0001, \h6011, \h1000 + nnn >>) : nnn \in JumpTargets }
    \cup { Prog(<< \h6000 + v0, \h6F22, \hB000 + nnn >>) :
              v0 \in {\h00, \h01, \h80, \hFF}, nnn \in {\h000, \h200, \h2F0, \hF01, \hFFF} }
    \cup { Prog(<< \h60FF, \h1206, \h0001, \hBFFF >>) }

\* V0 = 0xFF, VF = 1, I = 0xFFF, then F01E 241 times: the last one takes I
\* from 0xFFF + 240 * 0xFF = 0xFF0F past 0xFFFF.
IndexWrapRom == Prog(<< \h60FF, \h6F01, \hAFFF >> \o [k \in 1..241 |-> \hF01E])

\* ANNN alone; FX1E on a small I, with X = F, and taking I above 4095, with an
\* instruction that does not use I and one that does after it.
IndexRoms ==
    { Prog(<< \h6F01, \hA000 + nnn, \h6007 >>) : nnn \in {\h000, \h2F0, \hFFF} }
    \cup { Prog(<< \h6000 + 256 * x + a, \hA000 + nnn, \hF01E + 256 * x, \h6105, \hF165 >>) :
              x \in {0, 15}, a \in {\h00, \h01, \hFF}, nnn \in {\h000, \h2F0, \hFFF} }
    \cup { IndexWrapRom }

\* One word of each instruction the decoder knows, with X = 1 and with X = F
\* where the instruction names a register.
FrameWords ==
    { \h00E0, \h00EE, \h1300, \h2300, \h3109, \h4F03, \h5120, \h6155, \h6F55,
      \h7105, \h7F05, \h8120, \h8F10, \h8121, \h8F11, \h8122, \h8123, \h8124,
      \h8F14, \h8125, \h8126, \h8F16, \h8127, \h812E, \h9120, \hA123, \hB210,
      \hC1FF, \hCFFF, \hD125, \hE19E, \hE1A1, \hF107, \hFF07, \hF10A, \hFF0A,
      \hF115, \hF118, \hF11E, \hFF1E, \hF129, \hF133, \hFF33, \hF155, \hFF55,
      \hF165, \hFF65 }

\* VF = 3, V1 = 9, I = 0x300, both timers started, then one word; and a return
\* from a subroutine with a timer running.
FrameRoms ==
    { Prog(<< \h6F03, \h6109, \hA300, \hFF15, \hF118, w >>) : w \in FrameWords }
    \cup { Prog(<< \h2204, \h0001, \h6F03, \hFF15, \h00EE >>) }

\* Programs for the host loop: start the delay timer and wait for a key, then
\* loop; clear the screen over and over; ask for a key that is none.
HostRoms ==
    { Prog(<< \h6003, \hF015, \hF10A, \h1206 >>),
      Prog(<< \h00E0, \h1200 >>),
      Prog(<< \h60C8, \hE09E >>) }

\* How long one turn of the loop may take, in microseconds.
StepMicros == {500, 1000}

\* The CHIP-8 keys whose mapped keys the user may press.
PressKeys == {\h5, \hF}

\* The keys an Input may report.
Keys == 0..15

\* What Input.is_key_down may answer to the opcode about to run.
KeyDownAnswers(op) == IF op_family(op) = 14 THEN BOOLEAN ELSE {FALSE}

\* What Input.last_key_down may answer to the opcode about to run.
LastKeyAnswers(op) ==
    IF op_family(op) = 15 /\ op_kk(op) = 10
    THEN {None} \cup { Some(k) : k \in Keys }
    ELSE {None}

\* What the random number provider may return to the opcode about to run.
RandomAnswers(op) == IF op_family(op) = 12 THEN {0, \h0F, \hA5, \hFF} ELSE {0}

----------------------------------------------------------------------------
(* The state machine *)

Install(s) ==
    /\ v' = s.v
    /\ i' = s.i
    /\ pc' = s.pc
    /\ opcode' = s.opcode
    /\ stack' = s.stack
    /\ sp' = s.sp
    /\ memory' = s.memory
    /\ framebuffer' = s.framebuffer
    /\ dirty' = s.dirty
    /\ delay_timer' = s.delay_timer
    /\ sound_timer' = s.sound_timer
    /\ key_query' = s.key_query

\* No CPU: the place of `before2` when the operation before was no cycle.
NoCPU == << >>

InitWith(roms) ==
    \E rom \in roms :
        LET e == Emulator_new(rom)
        IN  /\ v = e.s.v
            /\ i = e.s.i
            /\ pc = e.s.pc
            /\ opcode = e.s.opcode
            /\ stack = e.s.stack
            /\ sp = e.s.sp
            /\ memory = e.s.memory
            /\ framebuffer = e.s.framebuffer
            /\ dirty = e.s.dirty
            /\ delay_timer = e.s.delay_timer
            /\ sound_timer = e.s.sound_timer
            /\ key_query = e.s.key_query
            /\ current_rom = rom
            /\ is_initial_state = TRUE
            /\ panicked = e.panic
            /\ overflow_checks \in BOOLEAN
            /\ window = host_buffer(blank_framebuffer)
            /\ cycles = 0
            /\ call_sites = << >>
            /\ timer_calls = [delay |-> None, sound |-> None]
            /\ last = [op |-> "new"]
            /\ host = main_start

\* The cycles the model follows the loaded ROM for.
CycleBound ==
    CASE current_rom \in StackRoms -> MaxStackCycles
      [] current_rom = IndexWrapRom -> MaxIndexCycles
      [] OTHER -> MaxCycles

\* The opcode the next cycle fetches (0 when the fetch panics).
next_opcode == IF fetch_ok(CPUState) THEN fetch(CPUState) ELSE 0

\* How the decoder dispatches an opcode.
is_cls(op) == op_family(op) = 0 /\ op_n(op) = 0
is_return(op) == op_family(op) = 0 /\ op_n(op) = 14
is_call(op) == op_family(op) = 2
is_draw(op) == op_family(op) = 13
is_wait_key(op) == op_family(op) = 15 /\ op_kk(op) = 10

\* The calls that have not returned, after a cycle that ran op from current_pc.
track_calls(sites, op, current_pc, panic) ==
    CASE panic -> sites
      [] is_call(op) -> Append(sites, current_pc)
      [] is_return(op) -> SubSeq(sites, 1, Len(sites) - 1)
      [] OTHER -> sites

\* FX15 and FX18 as the decoder dispatches them: the calls of Timer::set_value.
is_set_delay(op) == op_family(op) = 15 /\ op_kk(op) = \h15
is_set_sound(op) == op_family(op) = 15 /\ op_kk(op) = \h18

\* The calls made on one timer, after a cycle that called set_value(value) on it
\* when is_set, and then tick() when tick_timers; a cycle that panics calls
\* neither (its panic comes before them).
track_timer(calls, is_set, value, tick_timers, panic) ==
    LET c1 == IF is_set THEN Some([set |-> value, ticks |-> 0]) ELSE calls
    IN  CASE panic -> calls
          [] tick_timers /\ c1 /= None -> Some([c1[1] EXCEPT !.ticks = @ + 1])
          [] OTHER -> c1

\* Emulator::cycle
Cycle ==
    /\ ~panicked
    /\ cycles < CycleBound
    /\ \E tick_timers \in BOOLEAN,
          is_key_down \in KeyDownAnswers(next_opcode),
          last_key_down \in LastKeyAnswers(next_opcode),
          random \in RandomAnswers(next_opcode) :
            LET input == [is_key_down |-> is_key_down, last_key_down |-> last_key_down]
            IN  \E r \in { CPU_cycle(CPUState, tick_timers, input, random) } :
                /\ Install(r.s)
                /\ panicked' = r.panic
                /\ is_initial_state' = mark_cycled(is_initial_state)
                /\ cycles' = cycles + 1
                /\ call_sites' = track_calls(call_sites, next_opcode, pc,
                                             r.panic \/ ~fetch_ok(CPUState))
                /\ timer_calls' =
                        [delay |-> track_timer(timer_calls.delay, is_set_delay(next_opcode),
                                               v[op_x(next_opcode)], tick_timers, r.panic),
                         sound |-> track_timer(timer_calls.sound, is_set_sound(next_opcode),
                                               v[op_x(next_opcode)], tick_timers, r.panic)]
                /\ last' = [op |-> "cycle", tick_timers |-> tick_timers, input |-> input,
                            random |-> random, before |-> CPUState, sites |-> call_sites,
                            before2 |-> IF last.op = "cycle" THEN last.before ELSE NoCPU]
                /\ UNCHANGED <<current_rom, overflow_checks, window, host>>

\* Emulator::reset
Reset ==
    /\ ~panicked
    /\ Install(Emulator_reset(CPUState, current_rom))
    /\ is_initial_state' = TRUE
    /\ cycles' = 0
    /\ call_sites' = << >>
    /\ timer_calls' = [delay |-> None, sound |-> None]
    /\ last' = [op |-> "reset", before |-> CPUState]
    /\ UNCHANGED <<current_rom, panicked, overflow_checks, window, host>>

\* The host's redraw: when the display is dirty (and the refresh interval has
\* passed), the window gets the framebuffer; the dirty flag is left as it is.
Render ==
    /\ ~panicked
    /\ dirty
    /\ window' = host_buffer(framebuffer)
    /\ UNCHANGED <<v, i, pc, opcode, stack, sp, memory, framebuffer, dirty, delay_timer,
                   sound_timer, current_rom, is_initial_state, panicked, overflow_checks,
                   key_query, cycles, call_sites, timer_calls, last, host>>

\* emulator.cycle(should_tick_timer, &input) with MiniFBInput as the Input:
\* is_key_down indexes key_states with the key it is given (and panics for a
\* key above 15, after the fetch and clear_dirty), last_key_down is None.
\* The result is [s, panic, answers].
MiniFB_cycle(s, should_tick_timer, input, random) ==
    LET op == IF fetch_ok(s) THEN fetch(s) ELSE 0
        key == s.v[op_x(op)]
        asks == fetch_ok(s) /\ op_family(op) = 14 /\ op_kk(op) \in {\h9E, \hA1}
        index_panics == asks /\ key > 15
        answers == [is_key_down |-> asks /\ ~index_panics /\ input.key_states[key],
                    last_key_down |-> None]
    IN  IF index_panics
        THEN [s |-> [clear_dirty(s) EXCEPT !.opcode = op, !.key_query = << key >>],
              panic |-> TRUE, answers |-> answers]
        ELSE LET r == CPU_cycle(s, should_tick_timer, answers, random)
             IN  [s |-> r.s, panic |-> r.panic, answers |-> answers]

\* One iteration of main's loop, d microseconds after the one before; f1 is
\* window.is_key_pressed(Key::F1). The window stays open.
HostIterate ==
    /\ ~panicked
    /\ \E d \in StepMicros, f1 \in BOOLEAN, random \in RandomAnswers(next_opcode) :
        LET delta == elapsed(host.since_last_instant, d, MICROS_BETWEEN_CYCLES)
            timer_delta == elapsed(host.since_last_timer_tick, d, MICROS_BETWEEN_TIMER_TICKS)
            redraw_delta == elapsed(host.since_last_redraw, d, MICROS_BETWEEN_DISPLAY_REFRESH)
        IN  IF f1 /\ ~is_initial_state
            THEN /\ Install(Emulator_reset(CPUState, current_rom))
                 /\ is_initial_state' = TRUE
                 /\ last' = [op |-> "reset", before |-> CPUState]
                 /\ host' = [host EXCEPT !.since_last_instant = 0,
                                         !.since_last_timer_tick = 0,
                                         !.since_last_redraw = 0,
                                         !.should_tick_timer = FALSE,
                                         !.cycled = FALSE]
                 /\ UNCHANGED <<current_rom, panicked, overflow_checks, window, cycles,
                                call_sites, timer_calls>>
            ELSE
                LET should_tick_timer == timer_delta >= MICROS_BETWEEN_TIMER_TICKS
                    cycles_now == delta >= MICROS_BETWEEN_CYCLES
                    inputs == IF cycles_now /\ should_tick_timer
                              THEN update_key_state(host.input, host.keys_down)
                              ELSE {host.input}
                IN  \E input \in inputs :
                    \E r \in { IF cycles_now
                                THEN MiniFB_cycle(CPUState, should_tick_timer, input, random)
                                ELSE [s |-> CPUState, panic |-> FALSE] } :
                        /\ Install(r.s)
                        /\ panicked' = r.panic
                        /\ is_initial_state' =
                                IF cycles_now THEN mark_cycled(is_initial_state)
                                ELSE is_initial_state
                        /\ last' =
                                IF cycles_now
                                THEN [op |-> "cycle", tick_timers |-> should_tick_timer,
                                      input |-> r.answers, random |-> random,
                                      before |-> CPUState, sites |-> call_sites,
                                      before2 |-> IF last.op = "cycle" THEN last.before
                                                  ELSE NoCPU]
                                ELSE last
                        /\ window' =
                                IF ~r.panic /\ r.s.dirty
                                   /\ redraw_delta >= MICROS_BETWEEN_DISPLAY_REFRESH
                                THEN host_buffer(r.s.framebuffer)
                                ELSE window
                        /\ host' = [host EXCEPT
                                        !.since_last_instant = IF cycles_now THEN 0 ELSE delta,
                                        !.since_last_timer_tick =
                                            IF should_tick_timer THEN 0 ELSE timer_delta,
                                        !.since_last_redraw = redraw_delta,
                                        !.input = input,
                                        !.should_tick_timer = should_tick_timer,
                                        !.cycled = cycles_now]
                        /\ UNCHANGED <<current_rom, overflow_checks, cycles, call_sites,
                                       timer_calls>>

\* The user presses a mapped key and keeps it down.
PressKey ==
    /\ ~panicked
    /\ host.keys_down = {}
    /\ \E k \in PressKeys : host' = [host EXCEPT !.keys_down = {k}]
    /\ UNCHANGED <<v, i, pc, opcode, stack, sp, memory, framebuffer, dirty, delay_timer,
                   sound_timer, current_rom, is_initial_state, panicked, overflow_checks,
                   key_query, window, cycles, call_sites, timer_calls, last>>

HostNext == HostIterate \/ PressKey

InitHost == InitWith(HostRoms)
SpecHost == InitHost /\ [][HostNext]_vars
\* The loop keeps turning while the window is open.
SpecHostLive == SpecHost /\ WF_vars(HostIterate)

Next == Cycle \/ Reset \/ Render

Init == InitWith(Roms)
Spec == Init /\ [][Next]_vars

InitStack == InitWith(StackRoms)
SpecStack == InitStack /\ [][Next]_vars

InitDraw == InitWith(DrawRoms)
SpecDraw == InitDraw /\ [][Next]_vars

InitSkip == InitWith(SkipRoms)
SpecSkip == InitSkip /\ [][Next]_vars

InitAlu == InitWith(AluRoms)
SpecAlu == InitAlu /\ [][Next]_vars

InitTimer == InitWith(TimerRoms)
SpecTimer == InitTimer /\ [][Next]_vars

InitFont == InitWith(FontRoms)
SpecFont == InitFont /\ [][Next]_vars

InitShift == InitWith(ShiftFlagRoms)
SpecShift == InitShift /\ [][Next]_vars

InitWait == InitWith(WaitRoms)
SpecWait == InitWait /\ [][Next]_vars

InitPc == InitWith(PcRoms)
SpecPc == InitPc /\ [][Next]_vars

InitFault == InitWith(FaultRoms)
SpecFault == InitFault /\ [][Next]_vars

InitJump == InitWith(JumpRoms)
SpecJump == InitJump /\ [][Next]_vars

InitIndex == InitWith(IndexRoms)
SpecIndex == InitIndex /\ [][Next]_vars

InitFrame == InitWith(FrameRoms)
SpecFrame == InitFrame /\ [][Next]_vars

InitMem == InitWith(MemWriteRoms)
SpecMem == InitMem /\ [][Next]_vars

InitBcd == InitWith(BcdRoms)
SpecBcd == InitBcd /\ [][Next]_vars

----------------------------------------------------------------------------
(* Claims *)

\* The last operation was a cycle that fetched its opcode (now in `opcode`).
Ran == last.op = "cycle" /\ fetch_ok(last.before)

\* The last operation was a cycle that ran to its end.
Completed == Ran /\ ~panicked

\* C1: a cycle at FX0A leaves pc and the registers as they were while
\* last_key_down() is None, however many such cycles came before; the cycle in
\* which it is Some(k) sets VX to k and advances pc by 2; neither panics.
C1_BlockingRead ==
    (Ran /\ is_wait_key(opcode)) =>
        /\ ~panicked
        /\ IF last.input.last_key_down = None
           THEN pc = last.before.pc /\ v = last.before.v
           ELSE /\ pc = last.before.pc + 2
                /\ v = [last.before.v EXCEPT ![op_x(opcode)] = last.input.last_key_down[1]]

\* C1 witness: after two cycles blocked at 0x200, key 7 is reported and V3 gets it.
C1_Witness ==
    /\ Ran /\ is_wait_key(opcode) /\ op_x(opcode) = 3
    /\ cycles >= 3
    /\ last.before2 /= NoCPU /\ last.before2.pc = 512 /\ last.before.pc = 512
    /\ last.input.last_key_down = Some(7)
    /\ pc = 514 /\ v[3] = 7

\* The byte a fresh load of rom has at address a: the ROM at 0x200, the font at
\* 0x50..0x9F, zero elsewhere.
FreshByte(rom, a) ==
    IF a >= 512 /\ a < 512 + Len(rom) THEN rom[a - 512 + 1]
    ELSE IF a >= 80 /\ a <= 159 THEN FONTSET[a - 80 + 1]
    ELSE 0

\* C2: after reset() every pixel is 0, is_initial_state is true, and memory is a
\* fresh Memory with the ROM at 0x200, whatever the cycles before wrote or drew.
C2_ResetIsCold ==
    last.op = "reset" =>
        /\ \A p \in 0..2047 : framebuffer[p] = 0
        /\ is_initial_state
        /\ \A a \in 0..4095 : memory[a] = FreshByte(current_rom, a)

\* C2 witness: a reset of an emulator that had written memory and set pixels.
C2_Witness ==
    /\ last.op = "reset"
    /\ \E a \in 0..4095 : last.before.memory[a] /= FreshByte(current_rom, a)
    /\ \E p \in 0..2047 : last.before.framebuffer[p] = 1
    /\ \A a \in 0..4095 : memory[a] = FreshByte(current_rom, a)

\* The encodings of the listed instructions.
Listed(op) ==
    \/ op = \h00E0
    \/ op = \h00EE
    \/ op_family(op) \in {1, 2, 3, 4, 6, 7, 10, 11, 12, 13}
    \/ op_family(op) \in {5, 9} /\ op_n(op) = 0
    \/ op_family(op) = 8 /\ op_n(op) \in (0..7) \cup {14}
    \/ op_family(op) = 14 /\ op_kk(op) \in {\h9E, \hA1}
    \/ op_family(op) = 15 /\ op_kk(op) \in {\h07, \h0A, \h15, \h18, \h1E, \h29, \h33, \h55, \h65}

\* C3 (as claimed): a cycle that fetches a word that is no encoding of a listed
\* instruction panics.
C3_UnlistedIsFatal ==
    (Ran /\ ~Listed(opcode)) => panicked

\* C4 (as claimed): a cycle that runs 2NNN at pc p pushes p + 2 and sets pc to NNN.
C4_CallSetsPcToNNN ==
    (Completed /\ is_call(opcode)) =>
        /\ sp = last.before.sp + 1
        /\ stack[last.before.sp] = last.before.pc + 2
        /\ pc = op_nnn(opcode)

\* C5: calls and returns nest last-in first-out: the stack holds, in call order,
\* the return address p + 2 of every call site p that has not returned; a return
\* sets pc to the return address of the latest such call and removes it, so k
\* returns after k calls at p1..pk go to pk + 2, ..., p1 + 2 and leave the depth
\* where it was.
C5_CallReturnLIFO ==
    /\ sp = Len(call_sites)
    /\ \A j \in 1..Len(call_sites) : stack[j - 1] = call_sites[j] + 2
    /\ (Completed /\ is_return(opcode)) =>
            /\ pc = last.sites[Len(last.sites)] + 2
            /\ call_sites = SubSeq(last.sites, 1, Len(last.sites) - 1)
            /\ sp = last.before.sp - 1

\* C5 witness: STACK_SIZE calls nested from STACK_SIZE call sites have all
\* returned: the last return goes to the first call site + 2, depth 0.
C5_Witness ==
    /\ current_rom = ChainRom(STACK_SIZE)
    /\ Completed /\ is_return(opcode)
    /\ cycles = 2 * STACK_SIZE
    /\ last.sites = << 512 >>
    /\ pc = 514 /\ sp = 0

\* C6: 0 <= sp <= STACK_SIZE always; a call at sp = STACK_SIZE panics and leaves
\* the stack, sp and pc as they were; a return at sp = 0 panics.
C6_StackBounds ==
    /\ 0 <= sp /\ sp <= STACK_SIZE
    /\ (Ran /\ is_call(opcode) /\ last.before.sp = STACK_SIZE) =>
            /\ panicked
            /\ stack = last.before.stack /\ sp = last.before.sp /\ pc = last.before.pc
    /\ (Ran /\ is_return(opcode) /\ last.before.sp = 0) =>
            /\ panicked
            /\ stack = last.before.stack /\ sp = 0 /\ pc = last.before.pc

\* C6 witness: a call run with a full stack has panicked.
C6_Witness ==
    /\ Ran /\ is_call(opcode) /\ last.before.sp = STACK_SIZE
    /\ panicked /\ sp = STACK_SIZE

\* C7: after a completed cycle the dirty flag is set exactly when the cycle ran
\* clear-screen or draw-sprite.
C7_DirtyIffDrew ==
    Completed => (dirty <=> (is_cls(opcode) \/ is_draw(opcode)))

\* C7 witness: a completed cycle that did not draw, after a cycle that drew, has
\* left the flag off.
C7_Witness ==
    /\ Completed /\ ~is_cls(opcode) /\ ~is_draw(opcode)
    /\ last.before2 /= NoCPU /\ is_draw(last.before.opcode) /\ last.before.dirty
    /\ ~dirty

\* C8 (as claimed): a cycle that starts with the dirty flag set by the clear or
\* draw of the cycle before does not turn it off.
C8_CycleKeepsDirty ==
    (Ran /\ last.before2 /= NoCPU /\ last.before.dirty
         /\ (last.before.opcode = \h00E0 \/ is_draw(last.before.opcode)))
        => dirty

\* C8 (amended): the host's redraw leaves the dirty flag as it is, and a cycle
\* that starts with the flag set and runs neither clear-screen nor draw-sprite
\* ends with the flag off.
C8_DirtyUntilNextCycle ==
    [][ /\ (last' = last) => (dirty' = dirty)
        /\ (cycles' = cycles + 1 /\ dirty /\ fetch_ok(CPUState)
              /\ ~is_cls(next_opcode) /\ ~is_draw(next_opcode)) => ~dirty' ]_vars

\* C8 witness: the flag set by a draw is off after the next cycle, and the window
\* never got the drawn frame.
C8_Witness ==
    /\ Ran /\ last.before2 /= NoCPU /\ is_draw(last.before.opcode) /\ last.before.dirty
    /\ ~dirty
    /\ \E p \in 0..2047 : framebuffer[p] = 1
    /\ window /= host_buffer(framebuffer)

\* The last two operations were completed cycles that drew the same sprite
\* (with a set bit) at the same coordinates, the first on a cleared display.
SameSpriteTwice ==
    /\ Completed /\ is_draw(opcode)
    /\ last.before2 /= NoCPU
    /\ last.before.opcode = opcode
    /\ last.before2.v[op_x(opcode)] = last.before.v[op_x(opcode)]
    /\ last.before2.v[op_y(opcode)] = last.before.v[op_y(opcode)]
    /\ last.before2.i = last.before.i
    /\ \A k \in 0..(op_n(opcode) - 1) :
            last.before2.memory[last.before.i + k] = last.before.memory[last.before.i + k]
    /\ \E k \in 0..(op_n(opcode) - 1) : last.before.memory[last.before.i + k] /= 0
    /\ \A p \in 0..2047 : last.before2.framebuffer[p] = 0

\* C9: the same sprite drawn twice at the same place on a cleared display: VF is
\* 0 after the first draw and 1 after the second, every pixel is back to its
\* value before the first draw, and dirty is set after each.
C9_DrawTwiceCancels ==
    SameSpriteTwice =>
        /\ last.before.v[15] = 0
        /\ v[15] = 1
        /\ framebuffer = last.before2.framebuffer
        /\ last.before.dirty
        /\ dirty

\* C9 witness: a glyph drawn twice at (60, 30), wrapping on both axes.
C9_Witness ==
    /\ SameSpriteTwice
    /\ last.before.v[op_x(opcode)] = 60 /\ last.before.v[op_y(opcode)] = 30
    /\ \E p \in 0..2047 : last.before.framebuffer[p] = 1
    /\ v[15] = 1
    /\ \A p \in 0..2047 : framebuffer[p] = 0

\* Bit c (0 is the leftmost) of row r of the sprite of n rows that mem holds at addr.
SpriteBit(mem, addr, r, c) == (mem[addr + r] \div (2 ^ (7 - c))) % 2

\* The cell that bit (r, c) of a sprite drawn at (x, y) lands on.
TargetCell(x, y, r, c) == ((y + r) % 32) * 64 + ((x + c) % 64)

\* The rows and columns of an 8 x n sprite.
SpriteBits(n) == (0..(n - 1)) \X (0..7)

\* C10: a completed DXYN sets VF to 1 if some set bit of the sprite landed on a
\* pixel that was set, else to 0; each pixel a sprite bit lands on becomes the old
\* pixel XOR the bit; every other pixel is as it was.
C10_DrawSprite ==
    (Completed /\ is_draw(opcode)) =>
        LET b == last.before
            x == b.v[op_x(opcode)]
            y == b.v[op_y(opcode)]
            n == op_n(opcode)
            covered == { TargetCell(x, y, rc[1], rc[2]) : rc \in SpriteBits(n) }
            changed == { p \in 0..2047 : framebuffer[p] /= b.framebuffer[p] }
        IN  /\ v[15] = IF \E rc \in SpriteBits(n) :
                              /\ SpriteBit(b.memory, b.i, rc[1], rc[2]) = 1
                              /\ b.framebuffer[TargetCell(x, y, rc[1], rc[2])] = 1
                       THEN 1 ELSE 0
            /\ \A rc \in SpriteBits(n) :
                    framebuffer[TargetCell(x, y, rc[1], rc[2])] =
                        (b.framebuffer[TargetCell(x, y, rc[1], rc[2])]
                            + SpriteBit(b.memory, b.i, rc[1], rc[2])) % 2
            /\ changed \subseteq covered

\* C10 witness: a draw whose first rows hit set pixels and whose last row hits
\* none has set VF, turned pixels off and turned pixels on.
C10_Witness ==
    /\ Completed /\ is_draw(opcode) /\ op_n(opcode) = 5
    /\ v[15] = 1
    /\ LET b == last.before
           x == b.v[op_x(opcode)]
           y == b.v[op_y(opcode)]
       IN  /\ \A c \in 0..7 : b.framebuffer[TargetCell(x, y, 4, c)] = 0
           /\ \E c \in 0..7 : SpriteBit(b.memory, b.i, 4, c) = 1
           /\ \E p \in 0..2047 : b.framebuffer[p] = 1 /\ framebuffer[p] = 0
           /\ \E p \in 0..2047 : b.framebuffer[p] = 0 /\ framebuffer[p] = 1

\* C11 (as claimed): a DXYN whose sprite I..I+N is inside memory never panics,
\* whatever VX and VY are, and bit (r, b) of the sprite is XOR-ed into the pixel
\* ((VX + b) mod 64, (VY + r) mod 32), also when VX + b or VY + r is above 255.
C11_DrawNeverFaults ==
    (Ran /\ is_draw(opcode) /\ range_ok(last.before.i, op_n(opcode))) =>
        LET b == last.before
            x == b.v[op_x(opcode)]
            y == b.v[op_y(opcode)]
        IN  /\ ~panicked
            /\ \A rc \in SpriteBits(op_n(opcode)) :
                    framebuffer[TargetCell(x, y, rc[1], rc[2])] =
                        (b.framebuffer[TargetCell(x, y, rc[1], rc[2])]
                            + SpriteBit(b.memory, b.i, rc[1], rc[2])) % 2

\* The conditional skips: 3XKK, 4XKK, 5XY0, 9XY0, EX9E, EXA1.
IsSkip(op) ==
    \/ op_family(op) \in {3, 4}
    \/ op_family(op) \in {5, 9} /\ op_n(op) = 0
    \/ op_family(op) = 14 /\ op_kk(op) \in {\h9E, \hA1}

\* The condition of the skip op on the registers rv, the Input answering `down`
\* for the key it is asked about.
SkipCondition(op, rv, down) ==
    CASE op_family(op) = 3 -> rv[op_x(op)] = op_kk(op)
      [] op_family(op) = 4 -> rv[op_x(op)] /= op_kk(op)
      [] op_family(op) = 5 -> rv[op_x(op)] = rv[op_y(op)]
      [] op_family(op) = 9 -> rv[op_x(op)] /= rv[op_y(op)]
      [] op_family(op) = 14 /\ op_kk(op) = \h9E -> down
      [] OTHER -> ~down

\* C12: a cycle at a conditional skip completes with pc + 4 when the condition
\* of the instruction holds and with pc + 2 when it does not (for the key skips:
\* the Input was asked about the key VX and the condition is its answer), and
\* leaves every register V0..VF and I as it was.
C12_ConditionalSkip ==
    (Ran /\ IsSkip(opcode)) =>
        /\ ~panicked
        /\ pc = last.before.pc +
                (IF SkipCondition(opcode, last.before.v, last.input.is_key_down)
                 THEN 4 ELSE 2)
        /\ v = last.before.v
        /\ i = last.before.i
        /\ op_family(opcode) = 14 => key_query = << last.before.v[op_x(opcode)] >>

\* C12 witness: 5F30 with VF = V3 = 7 has skipped the next instruction.
C12_Witness ==
    /\ Ran /\ IsSkip(opcode) /\ opcode = \h5F30
    /\ last.before.v[15] = 7 /\ last.before.v[3] = 7
    /\ pc = last.before.pc + 4

\* C13: 7XNN sets VX to (VX + NN) mod 256 and changes no other register (VF
\* included when X is not F); 8XY4 with X and Y both not F sets VF to 1 when the
\* old VX + old VY is above 255 and to 0 otherwise, and VX to the sum mod 256;
\* neither panics, whatever the sum is.
C13_Add ==
    LET b == last.before
        x == op_x(opcode)
        y == op_y(opcode)
    IN  /\ (Ran /\ op_family(opcode) = 7) =>
                /\ ~panicked
                /\ v = [b.v EXCEPT ![x] = (b.v[x] + op_kk(opcode)) % 256]
        /\ (Ran /\ op_family(opcode) = 8 /\ op_n(opcode) = 4 /\ x /= 15 /\ y /= 15) =>
                /\ ~panicked
                /\ v = [b.v EXCEPT ![15] = IF b.v[x] + b.v[y] > 255 THEN 1 ELSE 0,
                                   ![x] = (b.v[x] + b.v[y]) % 256]

\* C13 witness: 8E24 with VE = 255, V2 = 1 and VF = 1 has left VE = 0 and VF = 1.
C13_Witness ==
    /\ Ran /\ opcode = \h8E24
    /\ last.before.v[14] = 255 /\ last.before.v[2] = 1 /\ last.before.v[15] = 1
    /\ v[14] = 0 /\ v[15] = 1

\* C14 (as claimed): 8XY5 (VX - VY) and 8XY7 (VY - VX) with X and Y both not F
\* set VF to 1 when the minuend is greater than or equal to the subtrahend (no
\* borrow; equal operands included) and to 0 otherwise, and VX to the
\* difference mod 256.
C14_SubNoBorrowFlag ==
    (Ran /\ op_family(opcode) = 8 /\ op_n(opcode) \in {5, 7}
         /\ op_x(opcode) /= 15 /\ op_y(opcode) /= 15) =>
        LET b == last.before
            vx == b.v[op_x(opcode)]
            vy == b.v[op_y(opcode)]
            minuend == IF op_n(opcode) = 5 THEN vx ELSE vy
            subtrahend == IF op_n(opcode) = 5 THEN vy ELSE vx
        IN  /\ ~panicked
            /\ v[15] = (IF minuend >= subtrahend THEN 1 ELSE 0)
            /\ v[op_x(opcode)] = (minuend - subtrahend + 256) % 256

\* C15: a cycle at 6XNN completes with VX = NN, every other register as it was,
\* and pc advanced by 2.
C15_LoadImmediate ==
    (Ran /\ op_family(opcode) = 6) =>
        /\ ~panicked
        /\ v = [last.before.v EXCEPT ![op_x(opcode)] = op_kk(opcode)]
        /\ pc = last.before.pc + 2

\* C15 witness: 6A07 as the first cycle: VA = 7, pc went from 0x200 to 0x202.
C15_Witness ==
    /\ Ran /\ opcode = \h6A07 /\ cycles = 1
    /\ last.before.pc = \h200 /\ last.before.v = Registers_default
    /\ v[10] = \h07 /\ pc = \h202

\* C16: a cycle at 00E0 completes with every pixel 0 and dirty set, whatever the
\* display held, with pc advanced by 2, and with the registers, I, the stack,
\* the stack depth and memory as they were; the timers are as they were but for
\* the tick the cycle was asked for.
C16_ClearScreen ==
    (Ran /\ opcode = \h00E0) =>
        LET b == last.before
            ticked(t) == IF last.tick_timers /\ t > 0 THEN t - 1 ELSE t
        IN  /\ ~panicked
            /\ \A p \in 0..2047 : framebuffer[p] = 0
            /\ dirty
            /\ pc = b.pc + 2
            /\ v = b.v /\ i = b.i
            /\ stack = b.stack /\ sp = b.sp
            /\ memory = b.memory
            /\ delay_timer = ticked(b.delay_timer)
            /\ sound_timer = ticked(b.sound_timer)

\* C16 witness: 00E0 on a display with set pixels and with both timers running,
\* in a cycle that ticks no timer.
C16_Witness ==
    /\ Ran /\ opcode = \h00E0
    /\ \E p \in 0..2047 : last.before.framebuffer[p] = 1
    /\ last.before.delay_timer > 0 /\ last.before.sound_timer > 0
    /\ ~last.tick_timers
    /\ delay_timer = last.before.delay_timer
    /\ \A p \in 0..2047 : framebuffer[p] = 0
    /\ dirty

\* A timer's value after set_value(set) and `ticks` calls of tick().
TimerFollowsCalls(value, calls) ==
    calls /= None =>
        value = (IF calls[1].set >= calls[1].ticks THEN calls[1].set - calls[1].ticks ELSE 0)

\* C17: for each of the two timers: after set_value(v) and n ticks the value is
\* max(v - n, 0); a tick takes one from a nonzero value and leaves zero as it
\* is; is_active() is true exactly when the value is not zero; a timer of a new
\* (or reset) CPU has the value 0 and is not active.
C17_Timer ==
    /\ TimerFollowsCalls(delay_timer, timer_calls.delay)
    /\ TimerFollowsCalls(sound_timer, timer_calls.sound)
    /\ delay_timer \in 0..255 /\ sound_timer \in 0..255
    /\ is_active(delay_timer) = (delay_timer /= 0)
    /\ is_active(sound_timer) = (sound_timer /= 0)
    /\ last.op \in {"new", "reset"} =>
            /\ delay_timer = 0 /\ ~is_active(delay_timer)
            /\ sound_timer = 0 /\ ~is_active(sound_timer)
    /\ (Completed /\ last.tick_timers /\ ~is_set_delay(opcode)) =>
            delay_timer = (IF last.before.delay_timer /= 0
                           THEN last.before.delay_timer - 1 ELSE 0)
    /\ (Completed /\ last.tick_timers /\ ~is_set_sound(opcode)) =>
            sound_timer = (IF last.before.sound_timer /= 0
                           THEN last.before.sound_timer - 1 ELSE 0)

\* C17 witness: the delay timer was set to 2 and ticked four times: it is 0.
C17_Witness ==
    /\ timer_calls.delay = Some([set |-> 2, ticks |-> 4])
    /\ delay_timer = 0
    /\ ~is_active(delay_timer)

\* C18: a cycle that is not asked to tick leaves each timer as it was, unless
\* it ran FX15 (delay) or FX18 (sound), which leave VX in it; a completed cycle
\* that is asked to tick takes one tick from both timers after the instruction
\* ran: FX07 reads the delay value of before the tick, FX15 / FX18 with VX > 0
\* leave VX - 1; a cycle that panics ticks nothing.
C18_TickAfterExecute ==
    Ran =>
        LET b == last.before
            vx == b.v[op_x(opcode)]
            ticked(t) == IF last.tick_timers /\ t > 0 THEN t - 1 ELSE t
        IN  /\ ~panicked =>
                    /\ delay_timer = ticked(IF is_set_delay(opcode) THEN vx ELSE b.delay_timer)
                    /\ sound_timer = ticked(IF is_set_sound(opcode) THEN vx ELSE b.sound_timer)
                    /\ (op_family(opcode) = 15 /\ op_kk(opcode) = \h07) =>
                            v[op_x(opcode)] = b.delay_timer
            /\ panicked =>
                    /\ delay_timer = b.delay_timer
                    /\ sound_timer = b.sound_timer

\* C18 witness: F107 in a ticking cycle, both timers running: V1 has the delay
\* value of before the tick, and each timer has lost one.
C18_Witness ==
    /\ Completed /\ opcode = \hF107 /\ last.tick_timers
    /\ last.before.delay_timer = 2 /\ last.before.sound_timer = 3
    /\ v[1] = 2 /\ delay_timer = 1 /\ sound_timer = 2

\* C19: is_initial_state is true right after new and right after reset, false
\* after every cycle since then (a cycle that panics included), and nothing
\* else changes it: it is true exactly when no cycle was called since the last
\* new / reset.
C19_InitialFlag ==
    /\ last.op \in {"new", "reset"} => is_initial_state
    /\ last.op = "cycle" => ~is_initial_state
    /\ is_initial_state = (cycles = 0)

\* C19 witness: a reset of an emulator that had run cycles has set the flag again.
C19_Witness ==
    /\ last.op = "reset"
    /\ last.before.pc /= ROM_BASE_ADDRESS
    /\ is_initial_state
    /\ cycles = 0

\* The first opcode of a ROM of two bytes or more: (rom[0] << 8) | rom[1].
FirstOpcode(rom) == rom[1] * 256 + rom[2]

\* C20: right after Emulator::new(rom), memory has the ROM at 0x200.., the font
\* table at 0x50..0x9F and 0 elsewhere, pc is 0x200, I is 0, the 16 registers are
\* 0, the stack is empty and both timers are 0; the first cycle fetches
\* (rom[0] << 8) | rom[1].
C20_NewEmulator ==
    /\ last.op = "new" =>
            /\ ~panicked
            /\ \A a \in 0..4095 : memory[a] = FreshByte(current_rom, a)
            /\ pc = \h200
            /\ i = 0
            /\ \A r \in 0..15 : v[r] = 0
            /\ sp = 0
            /\ delay_timer = 0 /\ sound_timer = 0
            /\ fetch_ok(CPUState) /\ fetch(CPUState) = FirstOpcode(current_rom)
    /\ (Ran /\ cycles = 1) => opcode = FirstOpcode(current_rom)

\* C20 witness: the first cycle on a ROM of six words has fetched its first word.
C20_Witness ==
    /\ Ran /\ cycles = 1 /\ Len(current_rom) = 12
    /\ last.before.pc = \h200 /\ last.before.sp = 0
    /\ \A a \in 0..4095 : last.before.memory[a] = FreshByte(current_rom, a)
    /\ opcode = FirstOpcode(current_rom)
    /\ opcode /= 0

\* C21: the emulator after reset() is the emulator Emulator::new makes of the
\* same ROM, component by component: pc = 0x200, I = 0, registers 0, stack
\* depth 0 (and a zeroed stack), timers 0, memory, framebuffer, dirty flag and
\* initial flag; a reset of it gives the same emulator again.
C21_ResetEqualsNew ==
    last.op = "reset" =>
        LET fresh == Emulator_new(current_rom).s
        IN  /\ pc = \h200 /\ i = 0 /\ sp = 0
            /\ \A r \in 0..15 : v[r] = 0
            /\ delay_timer = 0 /\ sound_timer = 0
            /\ v = fresh.v /\ i = fresh.i /\ pc = fresh.pc /\ opcode = fresh.opcode
            /\ stack = fresh.stack /\ sp = fresh.sp
            /\ delay_timer = fresh.delay_timer /\ sound_timer = fresh.sound_timer
            /\ memory = fresh.memory
            /\ framebuffer = fresh.framebuffer /\ dirty = fresh.dirty
            /\ is_initial_state
            /\ Emulator_reset(CPUState, current_rom) = CPUState

\* C21 witness: a reset of an emulator that had registers, I, timers and pixels
\* set.
C21_Witness ==
    /\ last.op = "reset"
    /\ last.before.v[0] /= 0 /\ last.before.i /= 0 /\ last.before.pc /= \h200
    /\ last.before.delay_timer > 0 /\ last.before.sound_timer > 0
    /\ \E p \in 0..2047 : last.before.framebuffer[p] = 1
    /\ v[0] = 0 /\ delay_timer = 0

\* C22: a new Memory has the 80 bytes of the font table at 0x50..0x9F (0xF0
\* first, 0x80 last) and 0 everywhere else; font_address_for_character(d) is
\* 0x50 + 5 * d for each digit d in 0..15, and the five bytes there are row d of
\* the table: FX29 on a digit leaves I at that glyph.
C22_FontTable ==
    /\ last.op = "new" =>
            /\ \A a \in 0..4095 :
                    Memory_new[a] =
                        (IF a >= \h50 /\ a <= \h9F THEN FONTSET[a - \h50 + 1] ELSE 0)
            /\ Memory_new[\h50] = \hF0 /\ Memory_new[\h9F] = \h80
            /\ \A d \in 0..15 :
                    /\ font_address_for_character(d) = \h50 + 5 * d
                    /\ \A k \in 0..4 :
                            Memory_new[font_address_for_character(d) + k]
                                = FONTSET[5 * d + k + 1]
            /\ \A a \in 0..511 : memory[a] = Memory_new[a]
    /\ (Completed /\ op_family(opcode) = 15 /\ op_kk(opcode) = \h29
            /\ last.before.v[op_x(opcode)] <= 15) =>
            LET d == last.before.v[op_x(opcode)]
            IN  /\ i = \h50 + 5 * d
                /\ \A k \in 0..4 : memory[i + k] = FONTSET[5 * d + k + 1]

\* C22 witness: FX29 on the digit F has left I at 0x9B, the glyph F0 80 F0 80 80.
C22_Witness ==
    /\ Completed /\ opcode = \hF329 /\ last.before.v[3] = 15
    /\ i = \h9B
    /\ << memory[i], memory[i + 1], memory[i + 2], memory[i + 3], memory[i + 4] >>
            = << \hF0, \h80, \hF0, \h80, \h80 >>

\* C23: a bulk write that does not fit in 0..4095 panics and leaves every byte
\* as it was: Emulator::new on a ROM of more than 3584 bytes (memory stays the
\* new Memory), FX55 with I + X + 1 > 4096; one that fits does not panic and
\* writes the bytes of its range, and no other byte.
C23_BulkWrite ==
    /\ last.op = "new" =>
            /\ panicked = (ROM_BASE_ADDRESS + Len(current_rom) > 4096)
            /\ \A a \in 0..4095 :
                    memory[a] = FreshByte(IF panicked THEN << >> ELSE current_rom, a)
    /\ (Ran /\ op_family(opcode) = 15 /\ op_kk(opcode) = \h55) =>
            LET b == last.before
                x == op_x(opcode)
            IN  IF b.i + x + 1 > 4096
                THEN panicked /\ memory = b.memory
                ELSE /\ ~panicked
                     /\ \A a \in 0..4095 :
                            memory[a] = (IF a >= b.i /\ a <= b.i + x
                                         THEN b.v[a - b.i] ELSE b.memory[a])

\* C23 witness: F155 at I = 0xFFF, where only V0 would fit: the cycle has
\* panicked and memory[0xFFF] is not V0.
C23_Witness ==
    /\ Ran /\ opcode = \hF155 /\ last.before.i = \hFFF
    /\ panicked
    /\ last.before.v[0] = \h11 /\ memory[\hFFF] = 0
    /\ memory = last.before.memory

\* C24: FX33 with I <= 4093 completes with memory[I], memory[I+1], memory[I+2]
\* each in 0..9 and 100 * memory[I] + 10 * memory[I+1] + memory[I+2] = VX; I,
\* the registers and every other byte of memory are as they were.
C24_BcdStore ==
    (Ran /\ op_family(opcode) = 15 /\ op_kk(opcode) = \h33 /\ last.before.i <= 4093) =>
        LET b == last.before
        IN  /\ ~panicked
            /\ \A k \in 0..2 : memory[b.i + k] \in 0..9
            /\ 100 * memory[b.i] + 10 * memory[b.i + 1] + memory[b.i + 2]
                    = b.v[op_x(opcode)]
            /\ i = b.i
            /\ v = b.v
            /\ \A a \in 0..4095 : (a < b.i \/ a > b.i + 2) => memory[a] = b.memory[a]

\* C24 witness: F533 with V5 = 255 at I = 0xFFD has written 2, 5, 5 to the last
\* three bytes of memory.
C24_Witness ==
    /\ Completed /\ opcode = \hF533
    /\ last.before.v[5] = 255 /\ last.before.i = \hFFD
    /\ memory[\hFFD] = 2 /\ memory[\hFFE] = 5 /\ memory[\hFFF] = 5

\* C25: a completed FX55 leaves V0..VX in memory[I..I+X] and the registers and I
\* as they were; a completed FX65 leaves memory[I..I+X] in V0..VX and the
\* registers above X, memory and I as they were; FX65 one instruction after
\* FX55 with the same X and I gives V0..VX the values they had at the FX55,
\* whatever the instruction between did to the registers.
C25_DumpLoad ==
    LET b == last.before
        x == op_x(opcode)
    IN  /\ (Completed /\ op_family(opcode) = 15 /\ op_kk(opcode) = \h55) =>
                /\ \A r \in 0..x : memory[b.i + r] = b.v[r]
                /\ v = b.v /\ i = b.i
        /\ (Completed /\ op_family(opcode) = 15 /\ op_kk(opcode) = \h65) =>
                /\ \A r \in 0..x : v[r] = b.memory[b.i + r]
                /\ \A r \in (x + 1)..15 : v[r] = b.v[r]
                /\ memory = b.memory /\ i = b.i
        /\ (Completed /\ op_family(opcode) = 15 /\ op_kk(opcode) = \h65
                /\ last.before2 /= NoCPU
                /\ last.before2.opcode = opcode - \h10
                /\ last.before2.i = b.i
                /\ b.memory = last.before2.memory) =>
                \A r \in 0..x : v[r] = last.before2.v[r]

\* C25 witness: FF55, then 6F99, then FF65: VF is 0x22 again, V0 is 0x11.
C25_Witness ==
    /\ Completed /\ opcode = \hFF65
    /\ last.before2 /= NoCPU /\ last.before2.opcode = \hFF55
    /\ last.before2.v[15] = \h22 /\ last.before.v[15] = \h99
    /\ v[15] = \h22 /\ v[0] = \h11
    /\ memory[\h300] = \h11 /\ memory[\h30F] = \h22

C27_Shifts ==
    (Ran /\ op_family(opcode) = 8 /\ op_n(opcode) \in {6, 14} /\ op_x(opcode) /= 15) =>
        LET b == last.before
            vx == b.v[op_x(opcode)]
        IN  /\ ~panicked
            /\ v[15] \in {0, 1}
            /\ v = [b.v EXCEPT ![15] = IF op_n(opcode) = 6 THEN vx % 2 ELSE vx \div 128,
                               ![op_x(opcode)] = IF op_n(opcode) = 6 THEN vx \div 2
                                                 ELSE (vx * 2) % 256]

\* C27 witness: 8E3E with VE = 0x81 and V3 = 0xAA: VF = 1, VE = 0x02, V3 as it was.
C27_Witness ==
    /\ Ran /\ opcode = \h8E3E
    /\ last.before.v[14] = \h81 /\ last.before.v[3] = \hAA
    /\ v[15] = 1 /\ v[14] = \h02 /\ v[3] = \hAA

\* C28 (as claimed): 8XY4, 8XY5 and 8XY7 with X not F compute VX from the values
\* VX and VY had before the instruction, also when Y is F: 8XF4 leaves
\* (old VX + old VF) mod 256 in VX, 8XF5 (old VX - old VF) mod 256, 8XF7
\* (old VF - old VX) mod 256.
C28_FlagAsOperand ==
    (Ran /\ op_family(opcode) = 8 /\ op_n(opcode) \in {4, 5, 7} /\ op_x(opcode) /= 15) =>
        LET b == last.before
            vx == b.v[op_x(opcode)]
            vy == b.v[op_y(opcode)]
        IN  /\ ~panicked
            /\ v[op_x(opcode)] =
                    CASE op_n(opcode) = 4 -> (vx + vy) % 256
                      [] op_n(opcode) = 5 -> (vx - vy + 256) % 256
                      [] OTHER -> (vy - vx + 256) % 256

\* C29: a cycle at FX0A with no key reported completes and changes nothing but
\* this: the dirty flag is off after it, and when the cycle was asked to tick,
\* each timer that was running has lost one (and a timer at 0 stays at 0);
\* registers, I, pc, the stack, memory and the framebuffer are as they were.
C29_BlockedCycle ==
    (Ran /\ is_wait_key(opcode) /\ last.input.last_key_down = None) =>
        LET b == last.before
            ticked(t) == IF last.tick_timers /\ t > 0 THEN t - 1 ELSE t
        IN  /\ ~panicked
            /\ v = b.v /\ i = b.i /\ pc = b.pc
            /\ stack = b.stack /\ sp = b.sp
            /\ memory = b.memory
            /\ framebuffer = b.framebuffer
            /\ ~dirty
            /\ delay_timer = ticked(b.delay_timer)
            /\ sound_timer = ticked(b.sound_timer)

\* C29 witness: the second blocked cycle of a wait on a drawn display: the sound
\* timer has gone from 1 to 0 and the pixels are still there.
C29_Witness ==
    /\ Ran /\ is_wait_key(opcode) /\ last.input.last_key_down = None
    /\ last.before2 /= NoCPU /\ last.before2.pc = pc /\ last.before.pc = pc
    /\ last.tick_timers
    /\ last.before.sound_timer = 1 /\ sound_timer = 0
    /\ v[0] = 1
    /\ \E p \in 0..2047 : framebuffer[p] = 1

\* C30: pc is at most 0x10FE in every state; a cycle started with pc < 4095
\* runs the opcode memory[pc] * 256 + memory[pc + 1]; a cycle started with
\* pc >= 4095 panics and leaves every field of the CPU and of the display as it
\* was, the dirty flag included.
C30_FetchRange ==
    /\ pc <= \h10FE
    /\ last.op = "cycle" =>
            LET b == last.before
            IN  IF b.pc < 4095
                THEN /\ Ran
                     /\ opcode = b.memory[b.pc] * 256 + b.memory[b.pc + 1]
                ELSE /\ panicked
                     /\ v = b.v /\ i = b.i /\ pc = b.pc /\ opcode = b.opcode
                     /\ stack = b.stack /\ sp = b.sp
                     /\ memory = b.memory
                     /\ framebuffer = b.framebuffer /\ dirty = b.dirty
                     /\ delay_timer = b.delay_timer /\ sound_timer = b.sound_timer

\* C30 witness: the program fell off the end of memory: the cycle at pc = 0x1000
\* has panicked, and the dirty flag the cycle before had set is still set.
C30_Witness ==
    /\ last.op = "cycle" /\ last.before.pc = \h1000
    /\ panicked
    /\ last.before.dirty /\ dirty
    /\ opcode = last.before.opcode

\* The range the instruction op accesses through I, with the state b before
\* it, extends past address 4095.
PastMemory(op, b) ==
    \/ is_draw(op) /\ b.i + op_n(op) > MEMORY_SIZE
    \/ op_family(op) = 15 /\ op_kk(op) = \h33 /\ b.i > MEMORY_SIZE - 3
    \/ op_family(op) = 15 /\ op_kk(op) \in {\h55, \h65} /\ b.i + op_x(op) + 1 > MEMORY_SIZE

\* C31 (as claimed): DXYN, FX33, FX55 or FX65 whose range through I extends past
\* address 4095 panics, and when it has panicked no byte of memory and no
\* register (V0..VF, I, pc) differs from what it was before the instruction.
C31_FaultChangesNothing ==
    (Ran /\ PastMemory(opcode, last.before)) =>
        /\ panicked
        /\ memory = last.before.memory
        /\ v = last.before.v /\ i = last.before.i /\ pc = last.before.pc

\* C32 (as claimed): every key passed to Input.is_key_down is in 0..15: a cycle
\* that ran EX9E or EXA1 has either panicked or asked for a key in 0..15.
C32_KeyInRange ==
    (Ran /\ op_family(opcode) = 14) =>
        \/ panicked
        \/ \A k \in 1..Len(key_query) : key_query[k] \in Keys

\* C33 (as claimed): a cycle that ran FX29 has either panicked or left I on the
\* first byte of one of the 16 glyphs, 0x50 + 5 * d with d in 0..15, whatever
\* VX was.
C33_FontAddressInTable ==
    (Ran /\ op_family(opcode) = 15 /\ op_kk(opcode) = \h29) =>
        \/ panicked
        \/ i \in { FONTSET_BASE_ADDRESS + 5 * d : d \in 0..15 }

\* C34: in every state each of the 2048 framebuffer cells is 0 or 1 (so the
\* assertion of rgba_framebuffer holds), and rgba_framebuffer gives 2048
\* entries, entry p being 0x00FFFFFF when cell p (row p / 64, column p % 64) is
\* 1 and 0 when it is 0; the step that reads the framebuffer for the window
\* changes neither the framebuffer nor the dirty flag.
C34_FramebufferCells ==
    /\ [](/\ DOMAIN framebuffer = 0..(FRAME_BUFFER_LEN - 1)
          /\ \A p \in 0..(FRAME_BUFFER_LEN - 1) : framebuffer[p] \in {0, 1}
          /\ LET rgba == rgba_framebuffer(framebuffer)
             IN  /\ DOMAIN rgba = 0..(FRAME_BUFFER_PIXEL_WIDTH * FRAME_BUFFER_PIXEL_HEIGHT - 1)
                 /\ \A y \in 0..(FRAME_BUFFER_PIXEL_HEIGHT - 1),
                       x \in 0..(FRAME_BUFFER_PIXEL_WIDTH - 1) :
                        rgba[y * FRAME_BUFFER_PIXEL_WIDTH + x] =
                            IF framebuffer[y * FRAME_BUFFER_PIXEL_WIDTH + x] = 1
                            THEN \h00FFFFFF ELSE 0)
    /\ [][window' /= window => (framebuffer' = framebuffer /\ dirty' = dirty)]_vars

\* C34 witness: a second draw has turned a lit pixel off (VF = 1) and left
\* others lit, and the window shows this framebuffer, the dirty flag still set.
C34_Witness ==
    /\ Completed /\ is_draw(opcode) /\ v[15] = 1
    /\ \E p \in 0..(FRAME_BUFFER_LEN - 1) : framebuffer[p] = 1
    /\ window = host_buffer(framebuffer)
    /\ dirty

\* C35: a cycle that ran 1NNN completes with pc = NNN and with the stack, its
\* depth, V0..VF and I as they were; a cycle that ran BNNN completes with
\* pc = NNN + V0, the full sum (up to 0x10FE), registers and stack as they were.
C35_Jumps ==
    /\ (Ran /\ op_family(opcode) = 1) =>
            /\ ~panicked
            /\ pc = opcode % \h1000
            /\ stack = last.before.stack /\ sp = last.before.sp
            /\ v = last.before.v /\ i = last.before.i
    /\ (Ran /\ op_family(opcode) = 11) =>
            /\ ~panicked
            /\ pc = (opcode % \h1000) + last.before.v[0]
            /\ stack = last.before.stack /\ sp = last.before.sp
            /\ v = last.before.v /\ i = last.before.i

\* C35 witness: 1206 has jumped to 0x206, and BFFF there, with V0 = 0xFF, has
\* set pc to 0x10FE.
C35_Witness ==
    /\ Completed /\ opcode = \hBFFF
    /\ last.before.opcode = \h1206 /\ last.before.pc = \h206
    /\ last.before.v[0] = \hFF
    /\ pc = \h10FE

\* C36: a cycle that ran ANNN completes with I = NNN, and a cycle that ran FX1E
\* completes with I = (I + VX) mod 65536, whatever the sum; each leaves V0..VF
\* as they were and advances pc by 2. With I above 4095 an instruction that
\* does not use I (6XNN) completes as well. A2F0 is one of the ANNN run.
C36_IndexRegister ==
    /\ (Ran /\ op_family(opcode) = 10) =>
            /\ ~panicked
            /\ i = opcode % \h1000
            /\ v = last.before.v
            /\ pc = last.before.pc + 2
    /\ (Ran /\ op_family(opcode) = 15 /\ op_kk(opcode) = \h1E) =>
            /\ ~panicked
            /\ i = (last.before.i + last.before.v[op_x(opcode)]) % 65536
            /\ v = last.before.v
            /\ pc = last.before.pc + 2
    /\ (Ran /\ op_family(opcode) = 6 /\ last.before.i > MEMORY_SIZE - 1) =>
            ~panicked /\ i = last.before.i

\* C36 witness: FX1E has taken I from 0xFF0F, with V0 = 0xFF, past 0xFFFF to
\* 0x000E, and VF is still 1.
C36_Witness ==
    /\ Completed /\ opcode = \hF01E
    /\ last.before.i = \hFF0F /\ last.before.v[0] = \hFF
    /\ i = \h000E
    /\ v[15] = 1

\* The instructions, as the decoder dispatches them, that may write VF: the
\* arithmetic ones with a flag, the draw, and those whose destination is VX
\* (V0..VX for FX65) with X = F.
WritesFlag(op) ==
    \/ op_family(op) = 8 /\ op_n(op) \in {4, 5, 6, 7, 14}
    \/ is_draw(op)
    \/ op_x(op) = 15 /\ op_family(op) \in {6, 7, 8, 12}
    \/ op_x(op) = 15 /\ op_family(op) = 15 /\ op_kk(op) \in {\h07, \h0A, \h65}

\* The instructions that may write Vr, r below F: those whose destination is VX
\* with X = r, and FX65 with X at least r.
WritesRegister(op, r) ==
    \/ op_x(op) = r /\ op_family(op) \in {6, 7, 8, 12}
    \/ op_x(op) = r /\ op_family(op) = 15 /\ op_kk(op) \in {\h07, \h0A}
    \/ op_x(op) >= r /\ op_family(op) = 15 /\ op_kk(op) = \h65

\* C37: after a cycle that ran an instruction, memory differs from what it was
\* only if the instruction is FX33 or FX55; the framebuffer only if it is 00E0
\* or DXYN; the stack or its depth only if it is 2NNN or 00EE; I only if it is
\* ANNN, FX1E or FX29; the delay timer only if it is FX15 or the cycle was asked
\* to tick, the sound timer only if it is FX18 or the cycle was asked to tick;
\* VF only if it is 8XY4, 8XY5, 8XY6, 8XY7, 8XYE, DXYN or has F as its
\* destination; any other register only if it is the instruction's destination.
C37_Frame ==
    Ran =>
        LET b == last.before
            op == opcode
            f == op_family(op)
            kk == op_kk(op)
        IN  /\ memory /= b.memory => (f = 15 /\ kk \in {\h33, \h55})
            /\ framebuffer /= b.framebuffer => (is_cls(op) \/ is_draw(op))
            /\ (stack /= b.stack \/ sp /= b.sp) => (is_call(op) \/ is_return(op))
            /\ i /= b.i => (f = 10 \/ (f = 15 /\ kk \in {\h1E, \h29}))
            /\ delay_timer /= b.delay_timer => (is_set_delay(op) \/ last.tick_timers)
            /\ sound_timer /= b.sound_timer => (is_set_sound(op) \/ last.tick_timers)
            /\ v[15] /= b.v[15] => WritesFlag(op)
            /\ \A r \in 0..14 : v[r] /= b.v[r] => WritesRegister(op, r)

\* C37 witness: 8121 with V1 = 9 and VF = 3 has completed in a cycle that was
\* asked to tick: both timers have lost one, VF is still 3, and I, the stack,
\* memory and the framebuffer are as they were.
C37_Witness ==
    /\ Completed /\ opcode = \h8121 /\ last.tick_timers
    /\ last.before.v[1] = 9 /\ v[1] = 9 /\ last.before.v[15] = 3 /\ v[15] = 3
    /\ last.before.delay_timer > 0 /\ delay_timer = last.before.delay_timer - 1
    /\ last.before.sound_timer > 0 /\ sound_timer = last.before.sound_timer - 1
    /\ i = \h300 /\ memory = last.before.memory

\* The program is at an FX0A it has fetched or is about to fetch.
WaitingForKey == ~panicked /\ fetch_ok(CPUState) /\ is_wait_key(fetch(CPUState))

\* C38 (as claimed): under the host loop, once the program waits at FX0A and
\* the user holds a mapped key down, a later cycle runs FX0A with a key
\* reported, VX gets the key and pc advances by 2 (unless the user resets the
\* emulator with F1 first).
C38_KeyEndsWait ==
    (WaitingForKey /\ host.keys_down /= {}) ~>
        \/ /\ Ran /\ is_wait_key(opcode)
           /\ last.input.last_key_down /= None
           /\ pc = last.before.pc + 2
           /\ v[op_x(opcode)] \in host.keys_down
        \/ last.op = "reset"

\* C39 (as claimed): an iteration of the host loop that found the timer
\* deadline passed (should_tick_timer true, last_timer_tick restarted) has
\* called emulator.cycle with tick_timers = true.
C39_NoTickDropped ==
    host.should_tick_timer =>
        /\ host.cycled
        /\ last.op = "cycle" /\ last.tick_timers

====
